---- MODULE Spec2Model ----
(***************************************************************************)
(* Model of the Gong recording synchronisation pipeline of worktv:         *)
(* scripts/sync-gong.ts (orchestrator and storage operations),             *)
(* src/lib/gong/calls.ts (provider client), src/lib/gong/transform.ts      *)
(* (transcript transformer) and src/lib/db/schema.sql (the store).         *)
(*                                                                         *)
(* Representation choices:                                                 *)
(*  - strings the code only compares are TLA+ strings; speaker names, on   *)
(*    which the code computes (toLowerCase, whitespace replacement), are   *)
(*    sequences of one-character strings;                                  *)
(*  - a template string `${a}-${b}` is the pair <<a, b>>;                  *)
(*  - a number of seconds ms / 1000 is the rational [num |-> ms,           *)
(*    den |-> 1000];                                                       *)
(*  - absent / undefined / SQL NULL is Null for a plain string or number,  *)
(*    Undefined for a string the code computes on, and the empty option    *)
(*    None (against Some(x)) for an array;                                 *)
(*  - time is counted in ticks of half an hour, see ONE_HOUR.              *)
(***************************************************************************)
EXTENDS Integers, Sequences, FiniteSets, TLC

Null == "null"
Undefined == << "undefined" >>
None == << >>
Some(x) == << x >>
IsNone(opt) == Len(opt) = 0

(***************************************************************************)
(* Bounds of the model.                                                    *)
(***************************************************************************)
\* runs of the sync script in one behaviour
MaxRuns == 2
\* last tick of the clock
MaxTime == 2
\* rate-limit signals the provider sends in one behaviour
MaxRateLimits == 3
\* terminations of the process by its host in one behaviour
MaxKills == 1
\* storage errors raised by the database in one behaviour (SpecFaults)
MaxFaults == 1
\* page requests of one listing
MaxListRequests == 5

(***************************************************************************)
(* Program constants.                                                      *)
(***************************************************************************)
\* seconds in a tick of the model's clock
TickSeconds == 30 * 60
\* 60 * 60 * 1000 ms in the source, in ticks
ONE_HOUR == (60 * 60) \div TickSeconds
\* hours
MEDIA_URL_EXPIRY_HOURS == 8
\* 50 in the source; scaled down so that a short call list has several chunks
TRANSCRIPT_BATCH_SIZE == 2
\* mutant: one more attempt per chunk
MAX_RETRIES_PER_BATCH_Four == 3 + 1

MAX_RETRIES_PER_BATCH == 3
\* gongFetch's retry-after when the provider omits the header, in seconds
DEFAULT_RETRY_AFTER == 60

SPEAKER_COLORS ==
  << "#6366f1", "#22c55e", "#f59e0b", "#ef4444", "#8b5cf6",
     "#06b6d4", "#ec4899", "#14b8a6", "#f97316", "#84cc16" >>

(***************************************************************************)
(* Strings the code computes on.                                           *)
(***************************************************************************)
Str_AlBo == << "A", "l", " ", "B", "o" >>
Str_albo == << "a", "l", " ", " ", "b", "o" >>
Str_Cy == << "c", "y", "@", "x" >>
Str_Unknown == << "U", "n", "k", "n", "o", "w", "n" >>
Str_Speaker == << "S", "p", "e", "a", "k", "e", "r" >>

\* String.prototype.toLowerCase, on the characters the model uses
LowerChar(ch) ==
  CASE ch = "A" -> "a"
    [] ch = "B" -> "b"
    [] ch = "S" -> "s"
    [] ch = "U" -> "u"
    [] OTHER -> ch

ToLowerCase(s) == [i \in 1..Len(s) |-> LowerChar(s[i])]

IsSpace(ch) == ch = " "

\* s.replace(/\s+/g, "-"): every maximal run of whitespace becomes one "-"
RECURSIVE ReplaceSpaces(_)
ReplaceSpaces(s) ==
  IF s = << >> THEN << >>
  ELSE IF IsSpace(Head(s))
       THEN IF Len(s) > 1 /\ IsSpace(s[2])
            THEN ReplaceSpaces(Tail(s))
            ELSE << "-" >> \o ReplaceSpaces(Tail(s))
       ELSE << Head(s) >> \o ReplaceSpaces(Tail(s))

(***************************************************************************)
(* Transcript transformer (src/lib/gong/transform.ts).                     *)
(***************************************************************************)
\* a ?? b, on plain strings and on strings the code computes on
UndefinedStr == "undefined"

Coalesce(a, b) == IF a /= Null /\ a /= UndefinedStr THEN a ELSE b

CoalesceStr(a, b) == IF a /= Undefined THEN a ELSE b

\* a ?? b on timestamps: an absent one is UndefinedTime, SQL NULL is NullTime
UndefinedTime == 0 - 1
NullTime == 0 - 2
CoalesceTime(a, b) == IF a /= UndefinedTime THEN a ELSE b

\* Map.set
MapSet(map, k, v) == [x \in DOMAIN map \cup {k} |-> IF x = k THEN v ELSE map[x]]

\* Map.get
MapGet(map, k) == IF k \in DOMAIN map THEN map[k] ELSE Undefined

MapHas(map, k) == k \in DOMAIN map

EmptyMap == [x \in {} |-> Null]

PartyName(party) ==
  CoalesceStr(party.name, CoalesceStr(party.emailAddress, Str_Unknown))

RECURSIVE buildSpeakerMapFrom(_, _)
buildSpeakerMapFrom(parties, map) ==
  IF parties = << >> THEN map
  ELSE LET party == Head(parties)
           m1 == IF party.speakerId /= Null
                 THEN MapSet(map, party.speakerId, PartyName(party))
                 ELSE map
           m2 == IF party.id /= Null
                 THEN MapSet(m1, party.id, PartyName(party))
                 ELSE m1
       IN buildSpeakerMapFrom(Tail(parties), m2)

buildSpeakerMap(parties) == buildSpeakerMapFrom(parties, EmptyMap)

Seconds(ms) == [num |-> ms, den |-> 1000]

\* a - b < 0, a - b > 0 on rationals
RatLess(a, b) == a.num * b.den < b.num * a.den

\* the segments of one entry, numbered from segmentId + 1
RECURSIVE EntrySegments(_, _, _)
EntrySegments(sentences, speakerName, segmentId) ==
  IF sentences = << >> THEN << >>
  ELSE LET sentence == Head(sentences)
       IN << [ id |-> << "seg-", segmentId + 1 >>,
               startTime |-> Seconds(sentence.start),
               endTime |-> Seconds(sentence.end),
               speaker |-> speakerName,
               text |-> sentence.text ] >>
          \o EntrySegments(Tail(sentences), speakerName, segmentId + 1)

\* mutant: the segment numbers start again with every entry
RECURSIVE FlattenEntries_PerEntry(_, _, _)
FlattenEntries_PerEntry(entries, speakerMap, segmentId) ==
  IF entries = << >> THEN << >>
  ELSE LET entry == Head(entries)
           speakerName == CoalesceStr(MapGet(speakerMap, entry.speakerId), Str_Speaker)
       IN EntrySegments(entry.sentences[1], speakerName, 0)
          \o FlattenEntries_PerEntry(Tail(entries), speakerMap, 0)

RECURSIVE FlattenEntries(_, _, _)
FlattenEntries(entries, speakerMap, segmentId) ==
  IF entries = << >> THEN << >>
  ELSE LET entry == Head(entries)
           speakerName == CoalesceStr(MapGet(speakerMap, entry.speakerId), Str_Speaker)
           sentences == entry.sentences[1]
       IN EntrySegments(sentences, speakerName, segmentId)
          \o FlattenEntries(Tail(entries), speakerMap, segmentId + Len(sentences))

\* Array.prototype.sort with (a, b) => a.startTime - b.startTime: a stable sort,
\* here by insertion (an element goes behind every element not greater than it)
\* mutant: an element goes before the elements equal to it
RECURSIVE InsertSorted_Before(_, _)
InsertSorted_Before(sorted, seg) ==
  IF sorted = << >> THEN << seg >>
  ELSE IF ~RatLess(Head(sorted).startTime, seg.startTime)
       THEN << seg >> \o sorted
       ELSE << Head(sorted) >> \o InsertSorted_Before(Tail(sorted), seg)

RECURSIVE InsertSorted(_, _)
InsertSorted(sorted, seg) ==
  IF sorted = << >> THEN << seg >>
  ELSE IF RatLess(seg.startTime, Head(sorted).startTime)
       THEN << seg >> \o sorted
       ELSE << Head(sorted) >> \o InsertSorted(Tail(sorted), seg)

RECURSIVE SortByStart(_, _)
SortByStart(segs, acc) ==
  IF segs = << >> THEN acc
  ELSE SortByStart(Tail(segs), InsertSorted(acc, Head(segs)))

\* for (const sentence of entry.sentences) throws when sentences is not iterable
TranscriptThrows(transcript) ==
  \E i \in 1..Len(transcript.transcript) : IsNone(transcript.transcript[i].sentences)

parseGongTranscript(transcript, speakerMap) ==
  SortByStart(FlattenEntries(transcript.transcript, speakerMap, 0), << >>)

\* [...new Set(names)]: first occurrences, in order
RECURSIVE UniqueInOrder(_, _)
UniqueInOrder(names, acc) ==
  IF names = << >> THEN acc
  ELSE IF \E i \in 1..Len(acc) : acc[i] = Head(names)
       THEN UniqueInOrder(Tail(names), acc)
       ELSE UniqueInOrder(Tail(names), Append(acc, Head(names)))

SpeakerId(name) == ReplaceSpaces(ToLowerCase(name))

\* mutant: the palette does not wrap; speakers past its end get its last colour
extractSpeakers_Clamp(segs) ==
  LET speakerNames == UniqueInOrder([i \in 1..Len(segs) |-> segs[i].speaker], << >>)
  IN [i \in 1..Len(speakerNames) |->
        [ id |-> SpeakerId(speakerNames[i]),
          name |-> speakerNames[i],
          color |-> SPEAKER_COLORS[IF i > Len(SPEAKER_COLORS)
                                   THEN Len(SPEAKER_COLORS) ELSE i] ]]

extractSpeakers(segs) ==
  LET speakerNames == UniqueInOrder([i \in 1..Len(segs) |-> segs[i].speaker], << >>)
  IN [i \in 1..Len(speakerNames) |->
        [ id |-> SpeakerId(speakerNames[i]),
          name |-> speakerNames[i],
          color |-> SPEAKER_COLORS[((i - 1) % Len(SPEAKER_COLORS)) + 1] ]]

(***************************************************************************)
(* Provider data.  A listed call is one of a few profiles; the call at     *)
(* position i of the listing has the native id CallIds[i].                 *)
(***************************************************************************)
CallIds == << "c1", "c2", "c3" >>

Parties ==
  << [id |-> "p1", speakerId |-> "s1", name |-> Str_AlBo, emailAddress |-> Undefined],
     [id |-> "p2", speakerId |-> Null, name |-> Undefined, emailAddress |-> Str_Cy],
     [id |-> "p3", speakerId |-> "s3", name |-> Str_albo, emailAddress |-> Undefined] >>

\* two speakers; sentences out of order and two with the same start
EntriesA ==
  << [speakerId |-> "s1",
      sentences |-> Some(<< [start |-> 2000, end |-> 3500, text |-> "x"],
                       [start |-> 500, end |-> 900, text |-> "y"] >>)],
     [speakerId |-> "p2",
      sentences |-> Some(<< [start |-> 500, end |-> 700, text |-> "z"] >>)] >>

\* one sentence of a speaker no party resolves
EntriesB ==
  << [speakerId |-> "s9",
      sentences |-> Some(<< [start |-> 0, end |-> 100, text |-> "w"] >>)] >>

\* two speakers whose names differ in letter case and whitespace only
EntriesC ==
  << [speakerId |-> "s1",
      sentences |-> Some(<< [start |-> 0, end |-> 1000, text |-> "u"] >>)],
     [speakerId |-> "s3",
      sentences |-> Some(<< [start |-> 1000, end |-> 2000, text |-> "v"] >>)] >>

\* a malformed entry: no sentences array
EntriesBad == << [speakerId |-> "s1", sentences |-> None] >>

Profiles == 1..6

ProfileMedia(p) ==
  CASE p = 1 -> [kind |-> "Video", videoUrl |-> "v-url", audioUrl |-> "a-url"]
    [] p = 2 -> [kind |-> "Audio", videoUrl |-> Null, audioUrl |-> "a-url"]
    [] p = 3 -> [kind |-> "Video", videoUrl |-> Null, audioUrl |-> "a-url"]
    [] p = 4 -> [kind |-> "Audio", videoUrl |-> Null, audioUrl |-> "a-url"]
    [] p = 5 -> [kind |-> "Video", videoUrl |-> "v-url", audioUrl |-> Null]
    [] OTHER -> [kind |-> "Audio", videoUrl |-> "v-url", audioUrl |-> "a-url"]

\* the entries of the call's transcript at the provider, None when it has none
ProfileEntries(p) ==
  CASE p = 1 -> Some(EntriesA)
    [] p = 2 -> Some(EntriesB)
    [] p = 3 -> Some(EntriesA)
    [] p = 4 -> None
    [] p = 5 -> Some(EntriesC)
    [] OTHER -> Some(EntriesBad)

\* one element of GongCallsListResponse["calls"]
CallData(i, p) ==
  [ metaData |-> [ id |-> CallIds[i],
                   title |-> IF i = 2 THEN "" ELSE "title",
                   purpose |-> IF i = 1 THEN "purpose" ELSE Null,
                   duration |-> 60 * i,
                   media |-> ProfileMedia(p).kind,
                   started |-> "started" ],
    parties |-> Parties,
    media |-> [ videoUrl |-> ProfileMedia(p).videoUrl,
                audioUrl |-> ProfileMedia(p).audioUrl ],
    profile |-> p ]

\* the provider's answer to POST /v2/calls/transcript for a batch of calls
TranscriptResponse(batch) ==
  LET have == SelectSeq(batch, LAMBDA c : ~IsNone(ProfileEntries(c.profile)))
  IN [i \in 1..Len(have) |->
        [callId |-> have[i].metaData.id,
         transcript |-> ProfileEntries(have[i].profile)[1]]]

(***************************************************************************)
(* The store (src/lib/db/schema.sql) and the storage operations of         *)
(* scripts/sync-gong.ts.  The connection runs with foreign_keys = ON and   *)
(* without an enclosing transaction: every statement commits on its own.   *)
(***************************************************************************)
EmptyDb == [recordings |-> {}, segments |-> {}, speakers |-> {}, summaries |-> {}]

RecordingId(callId) == << "gong_", callId >>

RowsOf(table, recordingId) == {r \in table : r.recording_id = recordingId}

RecordingRows(db, recordingId) == {r \in db.recordings : r.id = recordingId}

\* the set of the elements of a sequence
Range(seq) == {seq[i] : i \in 1..Len(seq)}

\* mutant: a plain INSERT into a table without the primary key
upsertRecording_NoReplace(d, recording, t) ==
  [d EXCEPT !.recordings =
     d.recordings \cup
       {[ id |-> recording.id, title |-> recording.title,
          description |-> recording.description, video_url |-> recording.videoUrl,
          duration |-> recording.duration, space |-> recording.space,
          source |-> recording.source, media_type |-> recording.mediaType,
          media_url_expires_at |-> recording.mediaUrlExpiresAt,
          created_at |-> recording.createdAt, synced_at |-> t ]}]

\* mutant: an upsert that keeps the old description and expiry when the record
\* has none (ON CONFLICT DO UPDATE SET description = COALESCE(excluded, old))
upsertRecording_KeepOld(d, recording, t) ==
  LET old == {r \in d.recordings : r.id = recording.id}
      row == [ id |-> recording.id,
               title |-> recording.title,
               description |->
                 IF recording.description \notin {Null, UndefinedStr}
                 THEN recording.description
                 ELSE IF old = {} THEN Null ELSE (CHOOSE r \in old : TRUE).description,
               video_url |-> recording.videoUrl,
               duration |-> recording.duration,
               space |-> recording.space,
               source |-> recording.source,
               media_type |-> recording.mediaType,
               media_url_expires_at |->
                 IF recording.mediaUrlExpiresAt /= UndefinedTime
                 THEN recording.mediaUrlExpiresAt
                 ELSE IF old = {} THEN NullTime
                      ELSE (CHOOSE r \in old : TRUE).media_url_expires_at,
               created_at |-> recording.createdAt,
               synced_at |-> t ]
  IN [ recordings |-> (d.recordings \ old) \cup {row},
       segments |-> d.segments \ {r \in d.segments : r.recording_id = recording.id},
       speakers |-> d.speakers \ {r \in d.speakers : r.recording_id = recording.id},
       summaries |-> d.summaries \ {r \in d.summaries : r.recording_id = recording.id} ]

\* INSERT OR REPLACE INTO recordings: the row with the same primary key is
\* deleted, which cascades to its children (ON DELETE CASCADE), and the new row
\* is inserted
upsertRecording(db, recording, t) ==
  LET row == [ id |-> recording.id,
               title |-> recording.title,
               description |-> Coalesce(recording.description, Null),
               video_url |-> recording.videoUrl,
               duration |-> recording.duration,
               space |-> recording.space,
               source |-> recording.source,
               media_type |-> recording.mediaType,
               media_url_expires_at |-> CoalesceTime(recording.mediaUrlExpiresAt, NullTime),
               created_at |-> recording.createdAt,
               synced_at |-> t ]
      replaced == RecordingRows(db, recording.id) /= {}
  IN [ recordings |-> (db.recordings \ RecordingRows(db, recording.id)) \cup {row},
       segments |-> IF replaced
                    THEN db.segments \ RowsOf(db.segments, recording.id)
                    ELSE db.segments,
       speakers |-> IF replaced
                    THEN db.speakers \ RowsOf(db.speakers, recording.id)
                    ELSE db.speakers,
       summaries |-> IF replaced
                     THEN db.summaries \ RowsOf(db.summaries, recording.id)
                     ELSE db.summaries ]

\* DELETE FROM <table> WHERE recording_id = ?
DeleteSegments(db, recordingId) ==
  [db EXCEPT !.segments = db.segments \ RowsOf(db.segments, recordingId)]

\* mutant: DELETE FROM speakers without the WHERE clause
DeleteSpeakers_All(d, recordingId) == [d EXCEPT !.speakers = {}]

DeleteSpeakers(db, recordingId) ==
  [db EXCEPT !.speakers = db.speakers \ RowsOf(db.speakers, recordingId)]

SegmentRows(recordingId, segs) ==
  [i \in 1..Len(segs) |->
     [ id |-> << recordingId, segs[i].id >>,
       recording_id |-> recordingId,
       start_time |-> segs[i].startTime,
       end_time |-> segs[i].endTime,
       speaker |-> segs[i].speaker,
       text |-> segs[i].text ]]

SpeakerRows(recordingId, spks) ==
  [i \in 1..Len(spks) |->
     [ id |-> << recordingId, spks[i].id >>,
       recording_id |-> recordingId,
       name |-> spks[i].name,
       color |-> spks[i].color ]]

\* stmt.run(...) for the rows from the k-th on, until a row violates a
\* constraint (its primary key is in the table, or its parent row does not
\* exist) or the process ends before row crashAt (0: it does not): the table
\* then, and how the loop ended
RECURSIVE RunInserts(_, _, _, _, _)
RunInserts(table, rows, k, crashAt, hasParent) ==
  IF k > Len(rows) THEN [table |-> table, end |-> "done"]
  ELSE IF k = crashAt THEN [table |-> table, end |-> "crashed"]
  ELSE IF ~hasParent \/ \E r \in table : r.id = rows[k].id
  THEN [table |-> table, end |-> "threw"]
  ELSE RunInserts(table \cup {rows[k]}, rows, k + 1, crashAt, hasParent)

\* mutant: the loop runs outside a transaction
Transaction_None(table, rows, crashAt, hasParent) ==
  RunInserts(table, rows, 1, crashAt, hasParent)

\* db.transaction(fn)(rows): the rows are committed when the loop ends; when a
\* row throws, or the process ends inside the transaction, the table is as before
Transaction(table, rows, crashAt, hasParent) ==
  LET r == RunInserts(table, rows, 1, crashAt, hasParent)
  IN IF r.end = "done" THEN r ELSE [table |-> table, end |-> r.end]

\* mutant: the loop of insertSegments stops one row early
insertSegments_OneShort(d, recordingId, segs) ==
  LET rows == SegmentRows(recordingId, SubSeq(segs, 1, Len(segs) - 1))
  IN [db |-> [d EXCEPT !.segments = d.segments \cup Range(rows)], threw |-> FALSE]

insertSegments(db, recordingId, segs) ==
  LET r == Transaction(db.segments, SegmentRows(recordingId, segs), 0,
                       RecordingRows(db, recordingId) /= {})
  IN [db |-> [db EXCEPT !.segments = r.table], threw |-> r.end = "threw"]

insertSpeakers(db, recordingId, spks) ==
  LET r == Transaction(db.speakers, SpeakerRows(recordingId, spks), 0,
                       RecordingRows(db, recordingId) /= {})
  IN [db |-> [db EXCEPT !.speakers = r.table], threw |-> r.end = "threw"]

\* mutant: the comparison of isRecentlySynced turned around
isRecentlySynced_Reversed(d, recordingId, t) ==
  \E row \in {r \in d.recordings : r.id = recordingId} : row.synced_at < t - ONE_HOUR

\* mutant: a row synced exactly one hour ago counts as recent
isRecentlySynced_Inclusive(d, recordingId, t) ==
  \E row \in RecordingRows(d, recordingId) : row.synced_at >= t - ONE_HOUR

\* syncedAt > oneHourAgo
isRecentlySynced(db, recordingId, t) ==
  \E row \in RecordingRows(db, recordingId) : row.synced_at > t - ONE_HOUR

(***************************************************************************)
(* The per-call step (processCall) as the sequence of storage statements   *)
(* it issues.                                                              *)
(***************************************************************************)
\* isVideo ? media?.videoUrl : media?.audioUrl
MediaUrl(callData) ==
  IF callData.metaData.media = "Video"
  THEN callData.media.videoUrl
  ELSE callData.media.audioUrl

\* call.media.toLowerCase()
MediaType(media) == IF media = "Video" THEN "video" ELSE "audio"

\* call.title || "Untitled Call"
TitleOf(call) == IF call.title = "" \/ call.title = Null THEN "Untitled Call" ELSE call.title

HasTranscript(callData, tmap) ==
  /\ MapHas(tmap, callData.metaData.id)
  /\ Len(tmap[callData.metaData.id].transcript) > 0

\* the segments and speakers processCall derives for a call
SegmentsOf(callData, tmap) ==
  IF HasTranscript(callData, tmap)
  THEN parseGongTranscript(tmap[callData.metaData.id], buildSpeakerMap(callData.parties))
  ELSE << >>

SpeakersOf(callData, tmap) ==
  IF HasTranscript(callData, tmap)
  THEN extractSpeakers(SegmentsOf(callData, tmap))
  ELSE << >>

RecordingOf(callData, t) ==
  [ id |-> RecordingId(callData.metaData.id),
    title |-> TitleOf(callData.metaData),
    description |-> Coalesce(callData.metaData.purpose, Null),
    videoUrl |-> MediaUrl(callData),
    duration |-> callData.metaData.duration,
    space |-> "Gong Calls",
    source |-> "gong",
    mediaType |-> MediaType(callData.metaData.media),
    mediaUrlExpiresAt |-> t + MEDIA_URL_EXPIRY_HOURS * ONE_HOUR,
    createdAt |-> callData.metaData.started ]

\* the statements of the try block, in the order of the source; the deletes of
\* video_files and chat_messages act on tables this script never fills
Statements(callData, tmap) ==
  << "upsertRecording", "deleteSegments", "deleteSpeakers",
     "deleteVideoFiles", "deleteChatMessages" >>
  \o (IF Len(SegmentsOf(callData, tmap)) > 0 THEN << "insertSegments" >> ELSE << >>)
  \o (IF Len(SpeakersOf(callData, tmap)) > 0 THEN << "insertSpeakers" >> ELSE << >>)

\* one statement: the store after it and whether it threw
Exec(d, stmt, callData, tmap, t) ==
  LET rid == RecordingId(callData.metaData.id)
  IN CASE stmt = "upsertRecording" ->
            [db |-> upsertRecording(d, RecordingOf(callData, t), t), threw |-> FALSE]
       [] stmt = "deleteSegments" ->
            [db |-> DeleteSegments(d, rid), threw |-> FALSE]
       [] stmt = "deleteSpeakers" ->
            [db |-> DeleteSpeakers(d, rid), threw |-> FALSE]
       [] stmt = "insertSegments" ->
            insertSegments(d, rid, SegmentsOf(callData, tmap))
       [] stmt = "insertSpeakers" ->
            insertSpeakers(d, rid, SpeakersOf(callData, tmap))
       [] OTHER -> [db |-> d, threw |-> FALSE]

\* the statements from the k-th on, until one throws (its own constraint, or the
\* storage error injected at faultAt) or `limit` statements have run:
\* the store then, the statements run to the end, and the one that threw (0: none)
RECURSIVE RunStatements(_, _, _, _, _, _, _, _)
RunStatements(d, stmts, k, limit, faultAt, callData, tmap, t) ==
  IF k > Len(stmts) \/ k > limit
  THEN [db |-> d, ran |-> k - 1, threwAt |-> 0]
  ELSE LET r == Exec(d, stmts[k], callData, tmap, t)
       IN IF k = faultAt \/ r.threw
          THEN [db |-> d, ran |-> k - 1, threwAt |-> k]
          ELSE RunStatements(r.db, stmts, k + 1, limit, faultAt, callData, tmap, t)

\* the ways one call of processCall can end: "returned" with a result, "threw"
\* (an error left the function) or "killed" (the host ended the process after
\* `ran` statements).  mayFault / mayKill: the environment may still raise a
\* storage error / end the process.
Result(synced, skipped, title) == [synced |-> synced, skipped |-> skipped, title |-> title]

\* mutant: a call without a transcript is reported synced and nothing is written
TryBlock_NeedsTranscript(d, callData, tmap, t, mayFault, mayKill) ==
  LET call == callData.metaData
      stmts == Statements(callData, tmap)
      synced == Result(TRUE, FALSE, call.title)
  IN IF ~HasTranscript(callData, tmap)
     THEN {[end |-> "returned", result |-> synced, db |-> d, ran |-> 0, cause |-> "none"]}
     ELSE {[end |-> "returned", result |-> synced,
            db |-> RunStatements(d, stmts, 1, Len(stmts), 0, callData, tmap, t).db,
            ran |-> Len(stmts), cause |-> "none"]}

TryBlock(d, callData, tmap, t, mayFault, mayKill) ==
  LET call == callData.metaData
      failed == Result(FALSE, FALSE, call.title)
      stmts == Statements(callData, tmap)
      n == Len(stmts)
  IN IF MediaUrl(callData) = Null
     THEN {[end |-> "returned", result |-> failed, db |-> d, ran |-> 0, cause |-> "no media"]}
     ELSE IF HasTranscript(callData, tmap) /\ TranscriptThrows(tmap[call.id])
     THEN {[end |-> "returned", result |-> failed, db |-> d, ran |-> 0, cause |-> "caught"]}
     ELSE LET run(limit, faultAt) ==
                RunStatements(d, stmts, 1, limit, faultAt, callData, tmap, t)
          IN { IF run(n, faultAt).threwAt /= 0
               THEN [end |-> "returned", result |-> failed, db |-> run(n, faultAt).db,
                     ran |-> run(n, faultAt).ran, cause |-> "caught"]
               ELSE [end |-> "returned", result |-> Result(TRUE, FALSE, call.title),
                     db |-> run(n, faultAt).db, ran |-> n, cause |-> "none"]
               : faultAt \in IF mayFault THEN 0..n ELSE {0} }
             \cup
             { [end |-> "killed", result |-> failed, db |-> run(limit, 0).db,
                ran |-> limit, cause |-> stmts[limit]]
               : limit \in {l \in 1..(n - 1) : mayKill /\ run(l, 0).threwAt = 0} }

\* mutant: the freshness check is made with --force too
processCall_IgnoreForce(d, callData, tmap, frc, t, mayFault, mayKill) ==
  IF isRecentlySynced(d, RecordingId(callData.metaData.id), t)
  THEN {[end |-> "returned", result |-> Result(FALSE, TRUE, callData.metaData.title),
         db |-> d, ran |-> 0, cause |-> "none"]}
  ELSE TryBlock(d, callData, tmap, t, mayFault, mayKill)

processCall(d, callData, tmap, frc, t, mayFault, mayKill) ==
  LET call == callData.metaData
      recordingId == RecordingId(call.id)
  IN IF frc
     THEN TryBlock(d, callData, tmap, t, mayFault, mayKill)
     ELSE \* the SELECT of isRecentlySynced runs outside the try block
          (IF mayFault
           THEN {[end |-> "threw", result |-> Result(FALSE, FALSE, call.title), db |-> d,
                  ran |-> 0, cause |-> "isRecentlySynced"]}
           ELSE {})
          \cup
          (IF isRecentlySynced(d, recordingId, t)
           THEN {[end |-> "returned", result |-> Result(FALSE, TRUE, call.title),
                  db |-> d, ran |-> 0, cause |-> "none"]}
           ELSE TryBlock(d, callData, tmap, t, mayFault, mayKill))

(***************************************************************************)
(* Provider client (src/lib/gong/calls.ts).                                *)
(***************************************************************************)
\* the Retry-After headers a 429 response carries in the model (Null: none)
RetryAfterHeaders == {Null, "1800"}

\* the characters of the header values of the model
HeaderChars(header) ==
  CASE header = "1800" -> << "1", "8", "0", "0" >>
    [] header = "30" -> << "3", "0" >>
    [] header = "0" -> << "0" >>
    [] header = "45s" -> << "4", "5", "s" >>
    [] OTHER -> << >>

Digits == << "0", "1", "2", "3", "4", "5", "6", "7", "8", "9" >>

IsDigit(c) == \E d \in 1..Len(Digits) : Digits[d] = c

DigitValue(c) == (CHOOSE d \in 1..Len(Digits) : Digits[d] = c) - 1

NaN == 0 - 1

\* the value of the leading decimal digits
RECURSIVE ParseDigits(_, _)
ParseDigits(chars, acc) ==
  IF chars = << >> \/ ~IsDigit(Head(chars)) THEN acc
  ELSE ParseDigits(Tail(chars), 10 * acc + DigitValue(Head(chars)))

\* parseInt(retryAfter, 10): NaN when the value does not start with a digit
ParseInt(header) ==
  LET chars == HeaderChars(header)
  IN IF chars = << >> \/ ~IsDigit(Head(chars)) THEN NaN ELSE ParseDigits(chars, 0)

\* a string that is neither undefined nor empty
Truthy(str) == str /= Null /\ str /= ""

\* the outcome of a request that did not throw
Fetched == [kind |-> "ok", retryAfterSeconds |-> 0, message |-> << >>]

\* mutant: 503 Service Unavailable is taken for a rate limit too
gongFetch_Retryable(response) ==
  IF response.status \in {429, 503}
  THEN LET seconds == IF Truthy(response.retryAfter)
                      THEN ParseInt(response.retryAfter)
                      ELSE DEFAULT_RETRY_AFTER
       IN [kind |-> "ratelimit", retryAfterSeconds |-> seconds,
           message |-> << "Gong rate limit exceeded. Retry after ", seconds, " seconds" >>]
  ELSE IF response.status \notin 200..299
  THEN [kind |-> "error", retryAfterSeconds |-> 0,
        message |-> << "Gong API error: ", response.status, " - ", response.body >>]
  ELSE Fetched

\* gongFetch: the outcome of one request, from the response: the value returned
\* (kind "ok") or the error thrown, a GongRateLimitError or an Error
gongFetch(response) ==
  IF response.status = 429
  THEN LET seconds == IF Truthy(response.retryAfter)
                      THEN ParseInt(response.retryAfter)
                      ELSE DEFAULT_RETRY_AFTER
       IN [kind |-> "ratelimit", retryAfterSeconds |-> seconds,
           message |-> << "Gong rate limit exceeded. Retry after ", seconds, " seconds" >>]
  ELSE IF response.status \notin 200..299
  THEN [kind |-> "error", retryAfterSeconds |-> 0,
        message |-> << "Gong API error: ", response.status, " - ", response.body >>]
  ELSE Fetched

\* the responses of the provider to one request
Responses ==
  {[status |-> 200, retryAfter |-> Null, body |-> "{}"],
   [status |-> 500, retryAfter |-> Null, body |-> "error"]}
  \cup {[status |-> 429, retryAfter |-> h, body |-> ""] : h \in RetryAfterHeaders}

\* the ticks a sleep of ms milliseconds takes
SleepTicks(ms) == (ms \div 1000) \div TickSeconds

\* process.env: both credentials set, the secret missing, the key empty
Configured == [GONG_ACCESS_KEY |-> "key", GONG_ACCESS_KEY_SECRET |-> "secret"]

Envs ==
  { Configured,
    [GONG_ACCESS_KEY |-> "key", GONG_ACCESS_KEY_SECRET |-> Null],
    [GONG_ACCESS_KEY |-> "", GONG_ACCESS_KEY_SECRET |-> "secret"] }

\* mutant: only the access key is looked at
isGongConfigured_KeyOnly(e) == Truthy(e.GONG_ACCESS_KEY)

\* Boolean(accessKey && accessKeySecret)
isGongConfigured(e) == Truthy(e.GONG_ACCESS_KEY) /\ Truthy(e.GONG_ACCESS_KEY_SECRET)

\* getGongAuthHeader throws when a credential is missing
AuthHeaderThrows(e) == ~Truthy(e.GONG_ACCESS_KEY) \/ ~Truthy(e.GONG_ACCESS_KEY_SECRET)

\* the cursors the provider hands out: Cursors[k] leads to page k + 1
Cursors == << "A", "B", "C", "D" >>

\* mutant: the request never carries the cursor
listCallsBody_NoCursor(cur) == [cursor |-> Null]

\* the body of the request of listCalls: the cursor is sent when it is truthy
listCallsBody(cur) == [cursor |-> IF Truthy(cur) THEN cur ELSE Null]

\* the number of pages of a listing of n calls in pages of ps
NumPages(n, ps) == IF n = 0 THEN 1 ELSE (n + ps - 1) \div ps

\* the page a request body asks for
PageOf(body) ==
  IF body.cursor = Null THEN 1
  ELSE 1 + CHOOSE k \in 1..Len(Cursors) : Cursors[k] = body.cursor

\* the provider's answer to a page request over the listing cs: the calls of the
\* page and the cursor of the next page; the last page carries endCursor
\* (an empty cursor or none)
ProviderPage(cs, body, ps, endCursor) ==
  LET k == PageOf(body)
      from == (k - 1) * ps + 1
      to == IF k * ps < Len(cs) THEN k * ps ELSE Len(cs)
  IN [calls |-> SubSeq(cs, from, to),
      records |-> [cursor |-> IF k < NumPages(Len(cs), ps) THEN Cursors[k] ELSE endCursor]]

EndCursors == {Null, ""}

(***************************************************************************)
(* The state.                                                              *)
(***************************************************************************)
VARIABLES
  now,           \* the clock, in ticks
  db,            \* the committed store
  provider,      \* the provider's listing: the profile of each call
  limits,        \* what the environment may do in this behaviour
  faults,        \* storage errors raised so far
  pc,            \* where the script is
  runs,          \* runs started
  startedAt,     \* history: the time the current run began
  force,         \* --force
  calls,         \* the listed calls
  batchStart,    \* i of the transcript loop
  retryCount,
  sleepMs,       \* the argument of the pending sleep
  transcriptMap,
  results,
  failCause,     \* what ended the run, when it failed
  rateLimits,    \* rate-limit signals sent so far
  kills,         \* terminations so far
  written,       \* history: the recording ids this run issued a write statement for
  fetchLog,      \* history: the requests and sleeps of this run's transcript phase
  lastKill,      \* history: the call and statement after which the process was killed
  prev,          \* history: how the previous run ended, what it synced, when it
                 \* began, and the store when the current run began
  env,           \* process.env of the current run
  cursor,        \* cursor of listAllCalls while it runs
  allCalls,      \* allCalls of listAllCalls
  listLog,       \* history: the page requests of this run's listing
  otherDb,       \* history: the store the other writer alone would have left
  racers,        \* two overlapping runs in their processing phase (SpecRace)
  pure,          \* a function of the script with its input and output (SpecPure)
  zoom           \* the access-token cache of lib/zoom/auth.ts and its callers (SpecZoom)

vars ==
  << now, db, provider, limits, faults, pc, runs, startedAt, force, calls, batchStart, retryCount,
     sleepMs, transcriptMap, results, failCause, rateLimits, kills, written,
     fetchLog, lastKill, prev, env, cursor, allCalls, listLog, otherDb, racers, pure, zoom >>

runVars ==
  << force, calls, batchStart, retryCount, sleepMs, transcriptMap, results, failCause >>

NoPrev == [pc |-> "none", synced |-> {}, start |-> 0, db |-> EmptyDb]
NoKill == [call |-> Null, after |-> Null]

Resting == {"idle", "done", "returned", "failed", "killed"}

\* the calls of the listing, as the provider returns them
CallList(prov) == [i \in 1..Len(prov) |-> CallData(i, prov[i])]

\* the listings with n calls
Listings(n) == [1..n -> Profiles]

\* the limits of a behaviour: runs of the script, rate-limit signals of the
\* provider, terminations by the host, storage errors of the database, the size
\* of the provider's pages, the environments the script is started in
Limits(r, rl, k, f, ps, es) ==
  [runs |-> r, rateLimits |-> rl, kills |-> k, faults |-> f, pageSize |-> ps, envs |-> es]

\* the two overlapping runs, not started
Procs == {"A", "B"}
NoRacers == [p \in Procs |-> [pc |-> "off", results |-> << >>, raced |-> FALSE]]

\* no function under check
NoPure == [fn |-> "none"]

\* the module lib/zoom/auth.ts is not loaded
NoZoom == [loaded |-> FALSE]

\* the state before the first run: an empty store
Base(listings, lim) ==
  /\ now = 0
  /\ db = EmptyDb
  /\ provider \in listings
  /\ limits = lim
  /\ faults = 0
  /\ pc = "idle"
  /\ runs = 0
  /\ startedAt = 0
  /\ force = FALSE
  /\ calls = << >>
  /\ batchStart = 0
  /\ retryCount = 0
  /\ sleepMs = 0
  /\ transcriptMap = EmptyMap
  /\ results = << >>
  /\ failCause = Null
  /\ rateLimits = 0
  /\ kills = 0
  /\ written = {}
  /\ fetchLog = << >>
  /\ lastKill = NoKill
  /\ prev = NoPrev
  /\ env = Configured
  /\ cursor = Null
  /\ allCalls = << >>
  /\ listLog = << >>
  /\ otherDb = EmptyDb

InitWith(listings, lim) ==
  /\ Base(listings, lim)
  /\ racers = NoRacers
  /\ pure = NoPure
  /\ zoom = NoZoom

\* runs over the store: every listing of up to two calls
Init ==
  InitWith(Listings(0) \cup Listings(1) \cup Listings(2),
           Limits(MaxRuns, 0, MaxKills, 0, 2, {Configured}))

\* one run in which the database may raise a storage error
InitFaults ==
  InitWith(Listings(1) \cup Listings(2), Limits(1, 0, MaxKills, MaxFaults, 2, {Configured}))

\* one run over a listing of two chunks in which the provider may rate-limit
InitFetch ==
  InitWith({<< 1, 4, 2 >>, << 2, 1, 4 >>}, Limits(1, MaxRateLimits, MaxKills, 0, 1, {Configured}))

\* uninterrupted runs over a listing of two chunks in which the provider may
\* rate-limit
InitRetry ==
  InitWith({<< 1, 4, 2 >>}, Limits(MaxRuns, MaxRateLimits, 0, 0, 2, {Configured}))

\* one uninterrupted run over a listing of one chunk or of two, in which the
\* provider may rate-limit
InitLive ==
  InitWith({<< 1, 4 >>, << 1, 4, 2 >>}, Limits(1, MaxRateLimits, 0, 0, 2, {Configured}))

\* runs over one call next to a writer of recordings of another source
InitFrame ==
  InitWith(Listings(1), Limits(MaxRuns, 0, MaxKills, 0, 2, {Configured}))

\* two overlapping runs over the same listing of one or two calls
InitRace ==
  InitWith(Listings(1) \cup Listings(2), Limits(0, 0, 0, 0, 2, {Configured}))

\* runs over one call started with or without credentials
InitConfig ==
  InitWith(Listings(1), Limits(MaxRuns, 0, MaxKills, 0, 1, Envs))

\* the ids of the calls whose step reported synced
SyncedIds == {calls[i].metaData.id : i \in {j \in 1..Len(results) : results[j].synced}}

Min(a, b) == IF a < b THEN a ELSE b

(***************************************************************************)
(* The run (sync) of scripts/sync-gong.ts.                                 *)
(***************************************************************************)
\* the script is started, with or without --force, dt ticks after the previous
\* run ended
StartRun(f, dt, e) ==
  /\ pc \in Resting
  /\ runs < limits.runs
  /\ dt > 0 => runs > 0
  /\ e \in limits.envs
  /\ now + dt <= MaxTime
  /\ now' = now + dt
  /\ runs' = runs + 1
  /\ prev' = IF runs = 0 THEN NoPrev
             ELSE [pc |-> pc, synced |-> SyncedIds, start |-> startedAt, db |-> db]
  /\ startedAt' = now + dt
  /\ force' = f
  /\ env' = e
  /\ IF isGongConfigured(e)
     THEN pc' = "listing" /\ failCause' = Null
     ELSE pc' = "returned" /\ failCause' = "not configured"
  /\ calls' = << >>
  /\ batchStart' = 0
  /\ retryCount' = 0
  /\ sleepMs' = 0
  /\ transcriptMap' = EmptyMap
  /\ results' = << >>
  /\ written' = {}
  /\ fetchLog' = << >>
  /\ lastKill' = NoKill
  /\ cursor' = Null
  /\ allCalls' = << >>
  /\ listLog' = << >>
  /\ UNCHANGED << db, provider, limits, faults, rateLimits, kills, otherDb, racers, pure, zoom >>

\* a page request of the listing and its outcome
ListEntry(cur, kind) == [cursor |-> cur, kind |-> kind]

\* mutant: a failed page request ends the listing with the calls received so far
AfterPage_ReturnPartial(kind, cur) ==
  IF kind = "ok" /\ Truthy(cur) THEN "loop" ELSE "return"

\* what follows a page request: the next pass of the loop ("loop"), the return
\* of listAllCalls ("return"), or the catch block of sync with a rate-limit
\* error ("ratelimited") or with another error ("throw")
AfterPage(kind, cur) ==
  CASE kind = "ok" -> IF Truthy(cur) THEN "loop" ELSE "return"
    [] kind = "ratelimit" -> "ratelimited"
    [] OTHER -> "throw"

\* one pass of the do/while loop of listAllCalls: await listCalls({..., cursor}),
\* and, when the loop ends or the request throws, what sync does with the outcome
ListCalls(response, endCursor) ==
  LET body == listCallsBody(cursor)
      o == IF AuthHeaderThrows(env)
           THEN [kind |-> "error", retryAfterSeconds |-> 0]
           ELSE gongFetch(response)
      page == ProviderPage(CallList(provider), body, limits.pageSize, endCursor)
      received == IF o.kind = "ok" THEN allCalls \o page.calls ELSE allCalls
      next == AfterPage(o.kind, page.records.cursor)
  IN /\ pc = "listing"
     /\ Len(listLog) < MaxListRequests
     /\ o.kind = "ratelimit" => rateLimits < limits.rateLimits
     /\ rateLimits' = IF o.kind = "ratelimit" THEN rateLimits + 1 ELSE rateLimits
     /\ listLog' = IF AuthHeaderThrows(env) THEN listLog
                   ELSE Append(listLog, ListEntry(body.cursor, o.kind))
     /\ allCalls' = received
     /\ CASE next = "loop" ->
               /\ cursor' = page.records.cursor
               /\ UNCHANGED << pc, calls, failCause >>
          [] next = "return" ->
               /\ cursor' = Null
               /\ calls' = received
               /\ pc' = IF Len(received) = 0 THEN "returned" ELSE "fetching"
               /\ UNCHANGED failCause
          [] next = "ratelimited" ->
               /\ pc' = "returned"
               /\ failCause' = "list rate limit"
               /\ UNCHANGED << calls, cursor >>
          [] OTHER ->
               /\ pc' = "failed"
               /\ failCause' = "listAllCalls"
               /\ UNCHANGED << calls, cursor >>
     /\ UNCHANGED << now, db, provider, limits, faults, runs, startedAt, force, batchStart,
                     retryCount, sleepMs, transcriptMap, results, kills, written,
                     fetchLog, lastKill, prev, env, otherDb, racers, pure, zoom >>

\* calls.slice(i, i + TRANSCRIPT_BATCH_SIZE)
\* mutant: the slice takes one call more than the loop advances by
Batch_OneMore(cs, i) == SubSeq(cs, i + 1, Min(i + TRANSCRIPT_BATCH_SIZE + 1, Len(cs)))

\* calls.slice(i, i + TRANSCRIPT_BATCH_SIZE)
Batch(cs, i) == SubSeq(cs, i + 1, Min(i + TRANSCRIPT_BATCH_SIZE, Len(cs)))

\* batch.map((c) => c.metaData.id)
BatchIds(batch) == [j \in 1..Len(batch) |-> batch[j].metaData.id]

\* for (const transcript of ...) transcriptMap.set(transcript.callId, transcript)
RECURSIVE SetAll(_, _)
SetAll(tmap, transcripts) ==
  IF transcripts = << >> THEN tmap
  ELSE SetAll(MapSet(tmap, Head(transcripts).callId, Head(transcripts)), Tail(transcripts))

\* mutant: the retry loop retries after every error
RetryDecision_RetryAll(o, rc) ==
  IF o.kind /= "ok"
  THEN IF rc + 1 >= MAX_RETRIES_PER_BATCH THEN "throw" ELSE "sleep"
  ELSE "break"

\* mutant: at the retry cap the loop skips the chunk
RetryDecision_SkipChunk(o, rc) ==
  IF o.kind = "ratelimit"
  THEN IF rc + 1 >= MAX_RETRIES_PER_BATCH THEN "break" ELSE "sleep"
  ELSE "break"

\* mutant: the retry loop gives up one rate-limit error later
RetryDecision_OneMore(o, rc) ==
  IF o.kind = "ratelimit"
  THEN IF rc + 1 > MAX_RETRIES_PER_BATCH THEN "throw" ELSE "sleep"
  ELSE "break"

\* what the retry loop does after a request: "break" (success, or an error that
\* is not a rate limit), "sleep" (retry after a sleep) or "throw"
RetryDecision(o, rc) ==
  IF o.kind = "ratelimit"
  THEN IF rc + 1 >= MAX_RETRIES_PER_BATCH THEN "throw" ELSE "sleep"
  ELSE "break"

\* mutant: the sleep ignores the duration the error carries
SleepArgument_Default(o) == DEFAULT_RETRY_AFTER * 1000

\* the argument of sleep after the rate-limit error o
SleepArgument(o) == o.retryAfterSeconds * 1000

LogEntry(ev, chunk, kind, value) ==
  [ev |-> ev, chunk |-> chunk, kind |-> kind, value |-> value]

\* one pass of the while loop: await getTranscripts(callIds) and its handling
\* a transcript request in the log: the chunk, the outcome and the callIds of
\* the request's filter
RequestEntry(chunk, kind, value, callIds) ==
  [ev |-> "request", chunk |-> chunk, kind |-> kind, value |-> value, callIds |-> callIds]

FetchRequest(response) ==
  LET o == gongFetch(response)
      decision == RetryDecision(o, retryCount)
  IN /\ pc = "fetching"
     /\ batchStart < Len(calls)
     /\ o.kind = "ratelimit" =>
          /\ rateLimits < limits.rateLimits
          /\ now + SleepTicks(SleepArgument(o)) <= MaxTime
     /\ rateLimits' = IF o.kind = "ratelimit" THEN rateLimits + 1 ELSE rateLimits
     /\ fetchLog' = Append(fetchLog,
                           RequestEntry(batchStart, o.kind, o.retryAfterSeconds,
                                        BatchIds(Batch(calls, batchStart))))
     /\ transcriptMap' = IF o.kind = "ok"
                         THEN SetAll(transcriptMap,
                                     TranscriptResponse(Batch(calls, batchStart)))
                         ELSE transcriptMap
     /\ CASE decision = "break" ->
               /\ batchStart' = batchStart + TRANSCRIPT_BATCH_SIZE
               /\ retryCount' = 0
               /\ UNCHANGED << pc, sleepMs, failCause >>
          [] decision = "sleep" ->
               /\ retryCount' = retryCount + 1
               /\ sleepMs' = SleepArgument(o)
               /\ pc' = "sleeping"
               /\ UNCHANGED << batchStart, failCause >>
          [] OTHER ->
               /\ retryCount' = retryCount + 1
               /\ pc' = "failed"
               /\ failCause' = "rate limit"
               /\ UNCHANGED << batchStart, sleepMs >>
     /\ UNCHANGED << now, db, provider, limits, faults, runs, startedAt, force, calls,
                     results, kills, written, lastKill, prev >>
     /\ UNCHANGED << env, cursor, allCalls, listLog, otherDb, racers, pure, zoom >>

\* await sleep(error.retryAfterSeconds * 1000) returns
Sleep ==
  /\ pc = "sleeping"
  /\ now' = now + SleepTicks(sleepMs)
  /\ fetchLog' = Append(fetchLog, LogEntry("sleep", batchStart, "sleep", sleepMs))
  /\ pc' = "fetching"
  /\ UNCHANGED << db, provider, limits, faults, runs, startedAt, force, calls, batchStart,
                  retryCount, sleepMs, transcriptMap, results, failCause, rateLimits,
                  kills, written, lastKill, prev >>
  /\ UNCHANGED << env, cursor, allCalls, listLog, otherDb, racers, pure, zoom >>

\* the transcript loop ends
\* mutant: the processing loop starts while chunks are left to fetch
BeginProcessing_Early ==
  /\ pc = "fetching"
  /\ pc' = "processing"
  /\ UNCHANGED << now, db, provider, limits, faults, runs, startedAt, force, calls,
                  batchStart, retryCount, sleepMs, transcriptMap, results, failCause,
                  rateLimits, kills, written, fetchLog, lastKill, prev >>
  /\ UNCHANGED << env, cursor, allCalls, listLog, otherDb, racers, pure, zoom >>

BeginProcessing ==
  /\ pc = "fetching"
  /\ batchStart >= Len(calls)
  /\ pc' = "processing"
  /\ UNCHANGED << now, db, provider, limits, faults, runs, startedAt, force, calls,
                  batchStart, retryCount, sleepMs, transcriptMap, results, failCause,
                  rateLimits, kills, written, fetchLog, lastKill, prev >>
  /\ UNCHANGED << env, cursor, allCalls, listLog, otherDb, racers, pure, zoom >>

\* one pass of the loop over the calls: results.push(processCall(...)),
\* and after the last call the summary and db.close()
ProcessCall ==
  /\ pc = "processing"
  /\ Len(results) < Len(calls)
  /\ LET callData == calls[Len(results) + 1]
         rid == RecordingId(callData.metaData.id)
     IN \E o \in processCall(db, callData, transcriptMap, force, now,
                             faults < limits.faults, kills < limits.kills) :
          /\ db' = o.db
          /\ written' = IF o.ran > 0 THEN written \cup {rid} ELSE written
          /\ faults' = IF o \in processCall(db, callData, transcriptMap, force, now,
                                             FALSE, kills < limits.kills)
                       THEN faults ELSE faults + 1
          /\ CASE o.end = "returned" ->
                    /\ results' = Append(results, o.result)
                    /\ pc' = IF Len(results) + 1 = Len(calls) THEN "done" ELSE pc
                    /\ UNCHANGED << failCause, kills, lastKill >>
               [] o.end = "threw" ->
                    /\ pc' = "failed"
                    /\ failCause' = o.cause
                    /\ UNCHANGED << results, kills, lastKill >>
               [] OTHER ->
                    /\ pc' = "killed"
                    /\ kills' = kills + 1
                    /\ lastKill' = [call |-> callData.metaData.id, after |-> o.cause]
                    /\ UNCHANGED << results, failCause >>
  /\ UNCHANGED << now, provider, limits, runs, startedAt, force, calls, batchStart,
                  retryCount, sleepMs, transcriptMap, rateLimits, fetchLog, prev >>
  /\ UNCHANGED << env, cursor, allCalls, listLog, otherDb, racers, pure, zoom >>

\* the host ends the process between two statements of the run
Terminate ==
  /\ pc \in {"listing", "fetching", "sleeping", "processing"}
  /\ kills < limits.kills
  /\ kills' = kills + 1
  /\ lastKill' = [call |-> Null, after |-> pc]
  /\ pc' = "killed"
  /\ UNCHANGED << now, db, provider, limits, faults, runs, startedAt, force, calls,
                  batchStart, retryCount, sleepMs, transcriptMap, results, failCause,
                  rateLimits, written, fetchLog, prev >>
  /\ UNCHANGED << env, cursor, allCalls, listLog, otherDb, racers, pure, zoom >>

\* the rows a writer for another source (recording ids 'zoom_...') stores
OtherId == << "zoom_", "z1" >>

OtherRecording(t) ==
  [ id |-> OtherId, title |-> "zoom title", description |-> Null, video_url |-> "z-url",
    duration |-> 30, space |-> "Zoom Meetings", source |-> "zoom", media_type |-> "video",
    media_url_expires_at |-> NullTime, created_at |-> "started", synced_at |-> t ]

OtherSegment ==
  [ id |-> << OtherId, << "seg-", 1 >> >>, recording_id |-> OtherId,
    start_time |-> Seconds(0), end_time |-> Seconds(1000), speaker |-> Str_AlBo,
    text |-> "w" ]

OtherSpeaker ==
  [ id |-> << OtherId, SpeakerId(Str_AlBo) >>, recording_id |-> OtherId,
    name |-> Str_AlBo, color |-> SPEAKER_COLORS[1] ]

\* the other writer stores its recording with its rows ("put") or deletes it
OtherApply(d, op, t) ==
  LET rest == [ recordings |-> d.recordings \ RecordingRows(d, OtherId),
                segments |-> d.segments \ RowsOf(d.segments, OtherId),
                speakers |-> d.speakers \ RowsOf(d.speakers, OtherId),
                summaries |-> d.summaries \ RowsOf(d.summaries, OtherId) ]
  IN IF op = "put"
     THEN [ recordings |-> rest.recordings \cup {OtherRecording(t)},
            segments |-> rest.segments \cup {OtherSegment},
            speakers |-> rest.speakers \cup {OtherSpeaker},
            summaries |-> rest.summaries ]
     ELSE rest

\* a write of the other writer, at any point of the run
OtherWrite(op) ==
  /\ OtherApply(db, op, now) /= db
  /\ db' = OtherApply(db, op, now)
  /\ otherDb' = OtherApply(otherDb, op, now)
  /\ UNCHANGED << now, provider, limits, faults, pc, runs, startedAt, force, calls,
                  batchStart, retryCount, sleepMs, transcriptMap, results, failCause,
                  rateLimits, kills, written, fetchLog, lastKill, prev, env, cursor,
                  allCalls, listLog, racers, pure, zoom >>

\* Two runs of the script without --force that overlap in their processing
\* phase; both have listed the provider's calls and fetched their transcripts.
RaceCalls == CallList(provider)

RaceTranscripts == SetAll(EmptyMap, TranscriptResponse(CallList(provider)))

\* the call the run p is at
RaceCall(p) == RaceCalls[Len(racers[p].results) + 1]

\* where the run goes after the result of a call
RaceAfter(p) == IF Len(racers[p].results) + 1 = Len(RaceCalls) THEN "done" ELSE "check"

\* the run p reaches its processing loop
RaceStart(p) ==
  /\ racers[p].pc = "off"
  /\ Len(provider) > 0
  /\ racers' = [racers EXCEPT ![p].pc = "check"]
  /\ UNCHANGED << now, db, provider, limits, faults, pc, runs, startedAt, force, calls,
                  batchStart, retryCount, sleepMs, transcriptMap, results, failCause,
                  rateLimits, kills, written, fetchLog, lastKill, prev, env, cursor,
                  allCalls, listLog, otherDb, pure, zoom >>

\* if (!force && isRecentlySynced(db, recordingId)) return { skipped: true }
RaceCheck(p) ==
  /\ racers[p].pc = "check"
  /\ racers' =
       IF isRecentlySynced(db, RecordingId(RaceCall(p).metaData.id), now)
       THEN [racers EXCEPT
               ![p].results = Append(@, Result(FALSE, TRUE, RaceCall(p).metaData.title)),
               ![p].pc = RaceAfter(p)]
       ELSE [racers EXCEPT ![p].pc = "write"]
  /\ UNCHANGED << now, db, provider, limits, faults, pc, runs, startedAt, force, calls,
                  batchStart, retryCount, sleepMs, transcriptMap, results, failCause,
                  rateLimits, kills, written, fetchLog, lastKill, prev, env, cursor,
                  allCalls, listLog, otherDb, pure, zoom >>

\* mutant: the freshness check is made again, atomically with the write
RaceWrite_Recheck(p) ==
  /\ racers[p].pc = "write"
  /\ LET o == CHOOSE x \in processCall(db, RaceCall(p), RaceTranscripts, FALSE, now,
                                       FALSE, FALSE) : TRUE
     IN /\ db' = o.db
        /\ racers' = [racers EXCEPT ![p].results = Append(@, o.result),
                                    ![p].pc = RaceAfter(p)]
  /\ UNCHANGED << now, provider, limits, faults, pc, runs, startedAt, force, calls,
                  batchStart, retryCount, sleepMs, transcriptMap, results, failCause,
                  rateLimits, kills, written, fetchLog, lastKill, prev, env, cursor,
                  allCalls, listLog, otherDb, pure, zoom >>

\* the try block of processCall, entered after the check found no fresh row;
\* raced: the run wrote although the store by then held a fresh row of the call
RaceWrite(p) ==
  /\ racers[p].pc = "write"
  /\ LET o == CHOOSE x \in TryBlock(db, RaceCall(p), RaceTranscripts, now, FALSE, FALSE) : TRUE
         fresh == \E row \in db.recordings :
                    /\ row.id = << "gong_", RaceCall(p).metaData.id >>
                    /\ now - row.synced_at < ONE_HOUR
     IN /\ db' = o.db
        /\ racers' = [racers EXCEPT ![p].results = Append(@, o.result),
                                    ![p].pc = RaceAfter(p),
                                    ![p].raced = @ \/ (fresh /\ o.ran > 0)]
  /\ UNCHANGED << now, provider, limits, faults, pc, runs, startedAt, force, calls,
                  batchStart, retryCount, sleepMs, transcriptMap, results, failCause,
                  rateLimits, kills, written, fetchLog, lastKill, prev, env, cursor,
                  allCalls, listLog, otherDb, pure, zoom >>

\* time passes while the two runs are under way
RaceTick ==
  /\ \E p \in Procs : racers[p].pc \notin {"off", "done"}
  /\ now < MaxTime
  /\ now' = now + 1
  /\ UNCHANGED << db, provider, limits, faults, pc, runs, startedAt, force, calls,
                  batchStart, retryCount, sleepMs, transcriptMap, results, failCause,
                  rateLimits, kills, written, fetchLog, lastKill, prev, env, cursor,
                  allCalls, listLog, otherDb, racers, pure, zoom >>

NextRace ==
  \/ \E p \in Procs : RaceStart(p)
  \/ \E p \in Procs : RaceCheck(p)
  \/ \E p \in Procs : RaceWrite(p)
  \/ RaceTick

\* the steps of the script under a provider that does not rate-limit
(***************************************************************************)
(* The functions of the script and of the client applied on their own: the *)
(* state holds one function's input and, once it has been applied, its     *)
(* output.                                                                 *)
(***************************************************************************)
NoOut == << >>

PureInput(fn, inputs) ==
  {[fn |-> fn, in |-> x, out |-> NoOut, done |-> FALSE] : x \in inputs}

PureRecordingId == RecordingId(CallIds[1])

PureSegments(entries) ==
  parseGongTranscript([transcript |-> entries], buildSpeakerMap(Parties))

\* the rows of one bulk insert
SegmentBatches ==
  {SegmentRows(PureRecordingId, PureSegments(e)) : e \in {EntriesA, EntriesB, EntriesC}}

SpeakerBatches ==
  {SpeakerRows(PureRecordingId, extractSpeakers(PureSegments(e))) : e \in {EntriesA, EntriesC}}

\* the table before the insert: empty or holding one row with the key of a row
\* of the batch, next to a row of another recording or not
TablesFor(rows) ==
  LET other == [rows[1] EXCEPT !.id = << RecordingId(CallIds[2]), rows[1].id[2] >>,
                               !.recording_id = RecordingId(CallIds[2])]
  IN {stale \cup others : stale \in {{}} \cup {{rows[i]} : i \in 1..Len(rows)},
                          others \in {{}, {other}}}

InsertInputs ==
  UNION {[table : TablesFor(rows), rows : {rows}, crashAt : 0..Len(rows),
          hasParent : BOOLEAN] : rows \in SegmentBatches \cup SpeakerBatches}

ApplyTransaction ==
  /\ pure.fn = "insert" /\ ~pure.done
  /\ pure' = [pure EXCEPT !.done = TRUE,
                          !.out = Transaction(pure.in.table, pure.in.rows,
                                              pure.in.crashAt, pure.in.hasParent)]
  /\ UNCHANGED << now, db, provider, limits, faults, pc, runs, startedAt, force,
                  calls, batchStart, retryCount, sleepMs, transcriptMap, results,
                  failCause, rateLimits, kills, written, fetchLog, lastKill, prev,
                  env, cursor, allCalls, listLog, otherDb, racers, zoom >>

\* the recording argument of upsertRecording: the optional fields present or not
UpsertRecords ==
  [ id : {PureRecordingId},
    title : {"title", ""},
    description : {UndefinedStr, "purpose"},
    videoUrl : {"v-url"},
    duration : {60},
    space : {"Gong Calls"},
    source : {"gong"},
    mediaType : {"video", "audio"},
    mediaUrlExpiresAt : {UndefinedTime, MEDIA_URL_EXPIRY_HOURS * ONE_HOUR},
    createdAt : {"started"} ]

\* a row an earlier sync left for the id: no column but the id as in a record
\* of UpsertRecords
OldRecording ==
  [ id |-> PureRecordingId, title |-> "old title", description |-> "old purpose",
    video_url |-> "old-url", duration |-> 30, space |-> "Old Calls",
    source |-> "old", media_type |-> "old", media_url_expires_at |-> 1,
    created_at |-> "earlier", synced_at |-> 0 ]

\* a row of another id
NeighbourRecording ==
  [OldRecording EXCEPT !.id = RecordingId(CallIds[2])]

\* the Summary another part of the application generated for a recording
SummaryRow(rid) ==
  [ id |-> << "summary-", rid >>, recording_id |-> rid, content |-> "summary",
    model |-> "model", generated_at |-> 0 ]

\* the store before the upsert: with or without a row of the id and its
\* children, with or without a row of another id and its children
UpsertDbs ==
  LET segs(rid) == Range(SegmentRows(rid, PureSegments(EntriesB)))
      spks(rid) == Range(SpeakerRows(rid, extractSpeakers(PureSegments(EntriesB))))
      part(row, has) == IF has
                        THEN [recordings |-> {row}, segments |-> segs(row.id),
                              speakers |-> spks(row.id),
                              summaries |-> {SummaryRow(row.id)}]
                        ELSE EmptyDb
  IN {[t \in {"recordings", "segments", "speakers", "summaries"} |->
         part(OldRecording, old)[t] \cup part(NeighbourRecording, other)[t]] :
      old \in BOOLEAN, other \in BOOLEAN}

UpsertInputs == [db : UpsertDbs, recording : UpsertRecords, t : 0..MaxTime]

ApplyUpsert ==
  /\ pure.fn = "upsert" /\ ~pure.done
  /\ pure' = [pure EXCEPT !.done = TRUE,
                          !.out = upsertRecording(pure.in.db, pure.in.recording,
                                                  pure.in.t)]
  /\ UNCHANGED << now, db, provider, limits, faults, pc, runs, startedAt, force,
                  calls, batchStart, retryCount, sleepMs, transcriptMap, results,
                  failCause, rateLimits, kills, written, fetchLog, lastKill, prev,
                  env, cursor, allCalls, listLog, otherDb, racers, zoom >>

\* the responses gongFetch may see: statuses around 2xx and 429, the
\* Retry-After header absent, empty or a number of seconds, two bodies
FetchStatuses == {200, 201, 204, 299, 300, 304, 400, 401, 404, 428, 429, 430, 500, 503}

FetchHeaders == {Null, "", "0", "30", "45s", "1800"}

FetchInputs == [status : FetchStatuses, retryAfter : FetchHeaders, body : {"", "oops"}]

ApplyFetch ==
  /\ pure.fn = "fetch" /\ ~pure.done
  /\ pure' = [pure EXCEPT !.done = TRUE, !.out = gongFetch(pure.in)]
  /\ UNCHANGED << now, db, provider, limits, faults, pc, runs, startedAt, force,
                  calls, batchStart, retryCount, sleepMs, transcriptMap, results,
                  failCause, rateLimits, kills, written, fetchLog, lastKill, prev,
                  env, cursor, allCalls, listLog, otherDb, racers, zoom >>

\* the transcripts parseGongTranscript is applied to: one or two entries of one
\* or two sentences, the starts in any order and with repetitions, the second
\* entry of a speaker of the parties or of one they do not name
SentenceStarts == {0, 500, 1000}

SentenceLists ==
  UNION {{[i \in 1..n |-> [start |-> f[i], end |-> f[i] + 100, text |-> "x"]] :
          f \in [1..n -> SentenceStarts]} : n \in 1..2}

ParseInputs ==
  {[transcript |-> << [speakerId |-> "s1", sentences |-> Some(a)] >>] :
     a \in SentenceLists}
  \cup {[transcript |-> << [speakerId |-> "s1", sentences |-> Some(a)],
                          [speakerId |-> id, sentences |-> Some(b)] >>] :
          a \in SentenceLists, b \in SentenceLists, id \in {"p2", "s9"}}

ApplyParse ==
  /\ pure.fn = "parse" /\ ~pure.done
  /\ pure' = [pure EXCEPT !.done = TRUE,
                          !.out = parseGongTranscript(pure.in, buildSpeakerMap(Parties))]
  /\ UNCHANGED << now, db, provider, limits, faults, pc, runs, startedAt, force,
                  calls, batchStart, retryCount, sleepMs, transcriptMap, results,
                  failCause, rateLimits, kills, written, fetchLog, lastKill, prev,
                  env, cursor, allCalls, listLog, otherDb, racers, zoom >>

\* twelve speaker names, two more than the palette has colours
NameLetters == << "a", "b", "c", "d", "e", "f", "g", "h", "i", "j", "k", "l" >>

SpeakerName(k) == << "S", " ", NameLetters[k] >>

\* the segments of the given speakers, in this order
SpokenBy(names) ==
  [i \in 1..Len(names) |->
     [ id |-> << "seg-", i >>, startTime |-> Seconds(1000 * i),
       endTime |-> Seconds(1000 * i + 500), speaker |-> names[i], text |-> "x" ]]

\* the segment sequences extractSpeakers is applied to: up to three segments of
\* three speakers in any order, the first m speakers followed by one of them
\* once more, and speakers whose names differ in letter case and whitespace
ExtractInputs ==
  {SpokenBy([i \in DOMAIN f |-> SpeakerName(f[i])]) :
     f \in UNION {[1..n -> 1..3] : n \in 0..3}}
  \cup {SpokenBy([i \in 1..(m + 1) |-> SpeakerName(IF i <= m THEN i ELSE r)]) :
          m \in 1..Len(NameLetters), r \in 1..Len(NameLetters)}
  \cup {SpokenBy(names) : names \in {<< Str_AlBo, Str_albo >>,
                                     << Str_albo, SpeakerName(1), Str_AlBo >>}}

ApplyExtract ==
  /\ pure.fn = "extract" /\ ~pure.done
  /\ pure' = [pure EXCEPT !.done = TRUE, !.out = extractSpeakers(pure.in)]
  /\ UNCHANGED << now, db, provider, limits, faults, pc, runs, startedAt, force,
                  calls, batchStart, retryCount, sleepMs, transcriptMap, results,
                  failCause, rateLimits, kills, written, fetchLog, lastKill, prev,
                  env, cursor, allCalls, listLog, otherDb, racers, zoom >>

\* the store after a sync of the call at position i with the transcript of
\* EntriesA: its Recording row, three Segments and two Speakers
StoredCall(d, i) ==
  LET callData == CallData(i, 1)
      tmap == MapSet(EmptyMap, CallIds[i], [callId |-> CallIds[i], transcript |-> EntriesA])
  IN (CHOOSE o \in processCall(d, callData, tmap, TRUE, 0, FALSE, FALSE) : TRUE).db

\* the transcript map of a later run: no transcript for the call (none returned,
\* or its chunk request failed), an empty transcript, or a transcript
StepMaps ==
  {EmptyMap}
  \cup {MapSet(EmptyMap, CallIds[1], [callId |-> CallIds[1], transcript |-> entries]) :
          entries \in {<< >>, EntriesB}}

\* a later step for the stored call: with other metadata and media, with and
\* without --force, inside and outside the freshness window
StepInputs ==
  [ db : {StoredCall(EmptyDb, 1), StoredCall(StoredCall(EmptyDb, 2), 1)},
    callData : {CallData(1, p) : p \in {1, 2, 5}},
    tmap : StepMaps,
    force : BOOLEAN,
    t : 0..MaxTime ]

ApplyProcessCall ==
  /\ pure.fn = "step" /\ ~pure.done
  /\ pure' = [pure EXCEPT !.done = TRUE,
                          !.out = processCall(pure.in.db, pure.in.callData, pure.in.tmap,
                                              pure.in.force, pure.in.t, FALSE, FALSE)]
  /\ UNCHANGED << now, db, provider, limits, faults, pc, runs, startedAt, force,
                  calls, batchStart, retryCount, sleepMs, transcriptMap, results,
                  failCause, rateLimits, kills, written, fetchLog, lastKill, prev,
                  env, cursor, allCalls, listLog, otherDb, racers, zoom >>

PureInputs ==
  PureInput("step", StepInputs) \cup
  PureInput("insert", InsertInputs) \cup PureInput("upsert", UpsertInputs)
  \cup PureInput("fetch", FetchInputs) \cup PureInput("parse", ParseInputs)
  \cup PureInput("extract", ExtractInputs)

InitPure ==
  /\ Base({<< >>}, Limits(0, 0, 0, 0, 2, {Configured}))
  /\ racers = NoRacers
  /\ pure \in PureInputs
  /\ zoom = NoZoom

NextPure ==
  \/ ApplyTransaction
  \/ ApplyUpsert
  \/ ApplyFetch
  \/ ApplyParse
  \/ ApplyExtract
  \/ ApplyProcessCall

Next ==
  \/ \E f \in BOOLEAN, dt \in 0..MaxTime, e \in Envs : StartRun(f, dt, e)
  \/ \E response \in Responses, endCursor \in EndCursors : ListCalls(response, endCursor)
  \/ \E response \in Responses : FetchRequest(response)
  \/ BeginProcessing
  \/ ProcessCall
  \/ Terminate

\* and under one that does
NextFetch ==
  \/ Next
  \/ Sleep

\* the steps of the script next to the other writer
NextFrame ==
  \/ Next
  \/ \E op \in {"put", "remove"} : OtherWrite(op)

\* the steps of runs that the host does not terminate
NextRetry ==
  \/ \E f \in BOOLEAN, dt \in 0..MaxTime, e \in Envs : StartRun(f, dt, e)
  \/ \E response \in Responses, endCursor \in EndCursors : ListCalls(response, endCursor)
  \/ \E response \in Responses : FetchRequest(response)
  \/ Sleep
  \/ BeginProcessing
  \/ ProcessCall

\* the steps of a run up to the processing loop: the script goes on whenever it
\* can (a pending request is answered, a sleep ends, the loops advance)
RunStep ==
  \/ \E response \in Responses, endCursor \in EndCursors : ListCalls(response, endCursor)
  \/ \E response \in Responses : FetchRequest(response)
  \/ Sleep
  \/ BeginProcessing

\* the processing loop has a call left: ProcessCall is enabled
ProcessEnabled == pc = "processing" /\ Len(results) < Len(calls)

\* WF_vars(ProcessCall), with ENABLED written out as ProcessEnabled: the
\* synchronous processing loop goes on to its next call
ProcessFair == ([]<>(~ProcessEnabled)) \/ ([]<><<ProcessCall>>_vars)

\* runs over the store; the provider does not rate-limit (SpecFetch covers that)
Spec == Init /\ [][Next]_vars

SpecFaults == InitFaults /\ [][Next]_vars

SpecFetch == InitFetch /\ [][NextFetch]_vars

SpecConfig == InitConfig /\ [][Next]_vars

SpecRetry == InitRetry /\ [][NextRetry]_vars

SpecFrame == InitFrame /\ [][NextFrame]_vars

SpecRace == InitRace /\ [][NextRace]_vars

SpecPure == InitPure /\ [][NextPure]_vars

\* one uninterrupted run that keeps taking its steps
SpecLive == InitLive /\ [][NextRetry]_vars /\ WF_vars(RunStep) /\ ProcessFair

(***************************************************************************)
(* The access-token cache of lib/zoom/auth.ts.  Times are milliseconds;    *)
(* every caller is one call of getZoomAccessToken in flight or returned.   *)
(***************************************************************************)
MaxZoomTicks == 6
MaxZoomRequests == 3
ZoomCallers == 1..2
ZoomTickMs == 150 * 1000
\* the expires_in (seconds) the token endpoint answers with
ExpiresIn == {300, 600, 900}
ZoomEnvs == BOOLEAN

NoToken == << >>
NoReturn == [kind |-> "none", token |-> NoToken]
IdleCall == [pc |-> "idle", req |-> 0, body |-> NoToken, stale |-> NoToken, ret |-> NoReturn]

isZoomConfigured(z) == z.configured

TokenBuffer == 5 * 60 * 1000

CacheValid_NoBuffer(z) ==
  /\ z.cachedToken /= NoToken
  /\ z.clock < z.tokenExpiry

\* cachedToken && Date.now() < tokenExpiry - 5 * 60 * 1000
CacheValid(z) ==
  /\ z.cachedToken /= NoToken
  /\ z.clock < z.tokenExpiry - TokenBuffer

InitZoom ==
  /\ Base({<< >>}, Limits(0, 0, 0, 0, 2, {Configured}))
  /\ racers = NoRacers
  /\ pure = NoPure
  /\ zoom \in {[ loaded |-> TRUE, configured |-> c, clock |-> 0, cachedToken |-> NoToken,
                 tokenExpiry |-> 0, requests |-> 0, calls |-> [p \in ZoomCallers |-> IdleCall] ]
                 : c \in ZoomEnvs}

ZoomUnchanged ==
  UNCHANGED << now, db, provider, limits, faults, pc, runs, startedAt, force, calls, batchStart,
               retryCount, sleepMs, transcriptMap, results, failCause, rateLimits, kills, written,
               fetchLog, lastKill, prev, env, cursor, allCalls, listLog, otherDb, racers, pure >>

\* the call up to its first await: the configuration check, the cache check, the request
GetZoomAccessToken(p) ==
  /\ zoom.loaded
  /\ zoom.calls[p].pc = "idle"
  /\ IF ~isZoomConfigured(zoom)
       THEN zoom' = [zoom EXCEPT !.calls[p] = [IdleCall EXCEPT !.ret = [kind |-> "null", token |-> NoToken]]]
     ELSE IF CacheValid(zoom)
       THEN zoom' = [zoom EXCEPT !.calls[p] =
                       [IdleCall EXCEPT !.ret = [kind |-> "cache",
                                                 token |-> << zoom.cachedToken[1].access_token >>]]]
     ELSE /\ zoom.requests < MaxZoomRequests
          /\ zoom' = [zoom EXCEPT !.requests = @ + 1,
                                  !.calls[p] = [IdleCall EXCEPT !.pc = "fetching",
                                                                !.req = zoom.requests + 1,
                                                                !.stale = zoom.cachedToken]]
  /\ ZoomUnchanged

\* the token endpoint answers: a token, a status that is not ok, or no answer at all
ZoomResponse(p) ==
  /\ zoom.loaded
  /\ zoom.calls[p].pc = "fetching"
  /\ \/ \E e \in ExpiresIn :
          zoom' = [zoom EXCEPT !.calls[p].pc = "json",
                               !.calls[p].body = << [access_token |-> zoom.calls[p].req,
                                                     expires_in |-> e] >>]
     \/ zoom' = [zoom EXCEPT !.calls[p].pc = "text"]
     \/ zoom' = [zoom EXCEPT !.calls[p] = [IdleCall EXCEPT !.stale = zoom.calls[p].stale,
                                                           !.ret = [kind |-> "threw", token |-> NoToken]]]
  /\ ZoomUnchanged

\* the body is read: the token and its expiry are stored, or the error is thrown
ZoomBody(p) ==
  /\ zoom.loaded
  /\ zoom.calls[p].pc \in {"json", "text"}
  /\ IF zoom.calls[p].pc = "text"
       THEN zoom' = [zoom EXCEPT !.calls[p] = [IdleCall EXCEPT !.stale = zoom.calls[p].stale,
                                                               !.ret = [kind |-> "threw", token |-> NoToken]]]
       ELSE zoom' = [zoom EXCEPT
                       !.cachedToken = zoom.calls[p].body,
                       !.tokenExpiry = zoom.clock + zoom.calls[p].body[1].expires_in * 1000,
                       !.calls[p] = [IdleCall EXCEPT !.stale = zoom.calls[p].stale,
                                                     !.ret = [kind |-> "exchange",
                                                              token |-> << zoom.calls[p].body[1].access_token >>]]]
  /\ ZoomUnchanged

\* Date.now() moves on
ZoomTick ==
  /\ zoom.loaded
  /\ zoom.clock < MaxZoomTicks * ZoomTickMs
  /\ zoom' = [zoom EXCEPT !.clock = @ + ZoomTickMs]
  /\ ZoomUnchanged

NextZoom ==
  \/ \E p \in ZoomCallers : GetZoomAccessToken(p)
  \/ \E p \in ZoomCallers : ZoomResponse(p)
  \/ \E p \in ZoomCallers : ZoomBody(p)
  \/ ZoomTick

SpecZoom == InitZoom /\ [][NextZoom]_vars

(***************************************************************************)
(* Claims.                                                                 *)
(***************************************************************************)
\* the recording ids of the calls the previous run reported synced
PrevSyncedRecordings == {RecordingId(c) : c \in prev.synced}

\* the current run lies within the freshness window of the previous one
WithinWindow == now - prev.start < ONE_HOUR

\* C1: idempotence.  In a run without --force that follows a complete run within
\* the freshness window (over the same listing), no write statement is issued for
\* a recording the first run synced.
C1_Idempotent ==
  (runs >= 2 /\ prev.pc = "done" /\ ~force /\ WithinWindow)
    => written \cap PrevSyncedRecordings = {}

\* C1 witness: such a second run completed, and skipped a call the first synced
C1_Witness ==
  /\ runs >= 2 /\ prev.pc = "done" /\ ~force /\ WithinWindow
  /\ pc = "done"
  /\ \E i \in 1..Len(results) :
       results[i].skipped /\ calls[i].metaData.id \in prev.synced

\* C2: at most one Recording row per provider call, its id 'gong_' + native id
C2_OneRowPerCall ==
  /\ \A r1, r2 \in db.recordings : r1.id = r2.id => r1 = r2
  /\ \A r \in db.recordings :
       \E i \in 1..Len(provider) : r.id = << "gong_", CallIds[i] >>

\* C2 witness: a call synced by the previous run was synced again, at a later
\* time, and has one row
C2_Witness ==
  /\ runs >= 2
  /\ \E i \in 1..Len(results) :
       /\ results[i].synced
       /\ calls[i].metaData.id \in prev.synced
       /\ now > prev.start
       /\ Cardinality(RecordingRows(db, RecordingId(calls[i].metaData.id))) = 1

\* the Segment and Speaker rows of a call in the store
StoredSegments(callData) == RowsOf(db.segments, RecordingId(callData.metaData.id))
StoredSpeakers(callData) == RowsOf(db.speakers, RecordingId(callData.metaData.id))

\* the Segment and Speaker rows of the transcript fetched for a call in this run
FetchedSegments(callData) ==
  IF MapHas(transcriptMap, callData.metaData.id)
  THEN Range(SegmentRows(RecordingId(callData.metaData.id),
                         parseGongTranscript(transcriptMap[callData.metaData.id],
                                             buildSpeakerMap(callData.parties))))
  ELSE {}

FetchedSpeakers(callData) ==
  IF MapHas(transcriptMap, callData.metaData.id)
  THEN Range(SpeakerRows(RecordingId(callData.metaData.id),
                         extractSpeakers(
                           parseGongTranscript(transcriptMap[callData.metaData.id],
                                               buildSpeakerMap(callData.parties)))))
  ELSE {}

\* the call whose step the process was killed in
KilledCall == calls[Len(results) + 1]

\* C3 (the claim): when the process is terminated right after the Segment insert
\* of a call and before its Speaker insert, the store holds either both the new
\* Segments and the new Speakers of the call or none of them.
C3_CrashAtomic ==
  (pc = "killed" /\ lastKill.after = "insertSegments")
    => \/ /\ StoredSegments(KilledCall) = FetchedSegments(KilledCall)
          /\ StoredSpeakers(KilledCall) = FetchedSpeakers(KilledCall)
       \/ /\ StoredSegments(KilledCall) \cap FetchedSegments(KilledCall) = {}
          /\ StoredSpeakers(KilledCall) \cap FetchedSpeakers(KilledCall) = {}

\* C4 (the claim): after a per-call step has returned, a Recording row the step
\* rewrote goes with exactly the Segments and Speakers of the call's transcript,
\* and rows of the call the step wrote go with a rewritten Recording row.
C4_Consistent ==
  \A i \in 1..Len(results) :
    RecordingId(calls[i].metaData.id) \in written
      => /\ \E row \in RecordingRows(db, RecordingId(calls[i].metaData.id)) :
              row.synced_at >= startedAt
         /\ StoredSegments(calls[i]) = FetchedSegments(calls[i])
         /\ StoredSpeakers(calls[i]) = FetchedSpeakers(calls[i])

\* a call whose own data makes its step fail: no media URL of its kind, a
\* transcript entry without sentences, or two speakers with one id
TranscriptMalformed(callData) ==
  /\ HasTranscript(callData, transcriptMap)
  /\ TranscriptThrows(transcriptMap[callData.metaData.id])

SpeakerIdsCollide(callData) ==
  /\ HasTranscript(callData, transcriptMap)
  /\ ~TranscriptThrows(transcriptMap[callData.metaData.id])
  /\ LET spks == SpeakersOf(callData, transcriptMap)
     IN \E a, b \in 1..Len(spks) : a /= b /\ spks[a].id = spks[b].id

FailsOnItsOwn(callData) ==
  \/ MediaUrl(callData) = Null
  \/ TranscriptMalformed(callData)
  \/ SpeakerIdsCollide(callData)

\* every transcript the provider has for a listed call was fetched in this run
FetchedAll ==
  \A i \in 1..Len(calls) :
    MapHas(transcriptMap, calls[i].metaData.id) <=> ~IsNone(ProfileEntries(calls[i].profile))

\* C5 (the claim): after a terminated run, a complete run without --force within
\* the freshness window leaves every listed call that has a media URL (and a
\* well-formed transcript, fetched in this run) with its Recording row and the
\* Segments and Speakers of its transcript.
C5_SafeResume ==
  (pc = "done" /\ runs >= 2 /\ prev.pc = "killed" /\ ~force /\ WithinWindow /\ FetchedAll)
    => \A i \in 1..Len(calls) :
         ~FailsOnItsOwn(calls[i])
           => /\ RecordingRows(db, RecordingId(calls[i].metaData.id)) /= {}
              /\ StoredSegments(calls[i]) = FetchedSegments(calls[i])
              /\ StoredSpeakers(calls[i]) = FetchedSpeakers(calls[i])

\* C6: after a step that reported synced, the Segment and Speaker rows of the
\* recording are exactly those of the transcript fetched in this run.
C6_ExactRows ==
  \A i \in 1..Len(results) :
    results[i].synced
      => /\ StoredSegments(calls[i]) = FetchedSegments(calls[i])
         /\ StoredSpeakers(calls[i]) = FetchedSpeakers(calls[i])

\* C6 witness: a synced step has changed the Segment rows an earlier sync stored
C6_Witness ==
  \E i \in 1..Len(results) :
    /\ results[i].synced
    /\ RowsOf(prev.db.segments, RecordingId(calls[i].metaData.id)) /= {}
    /\ RowsOf(prev.db.segments, RecordingId(calls[i].metaData.id))
         /= StoredSegments(calls[i])

\* the process has ended by itself: sync() returned or threw
Exited == pc \in {"done", "returned", "failed"}

\* mutant: a run with failed calls exits with 1 too
ExitCode_FailedCalls ==
  IF pc = "failed" \/ \E i \in 1..Len(results) : ~results[i].synced /\ ~results[i].skipped
  THEN 1 ELSE 0

\* sync().catch(... process.exit(1)): 1 when sync() threw, 0 when it returned
ExitCode == IF pc = "failed" THEN 1 ELSE 0

\* results.filter((r) => r.synced).length
SyncedCount == Cardinality({i \in 1..Len(results) : results[i].synced})

\* results.filter((r) => r.skipped).length
SkippedCount == Cardinality({i \in 1..Len(results) : results[i].skipped})

\* mutant: every result that is not synced counts as failed
FailedCount_NotSynced == Cardinality({i \in 1..Len(results) : ~results[i].synced})

\* results.filter((r) => !r.synced && !r.skipped).length
FailedCount == Cardinality({i \in 1..Len(results) : ~results[i].synced /\ ~results[i].skipped})

\* C7 (the claim): an error in the processing of one call does not end the run;
\* the run goes on to the remaining calls; when no storage error occurred, the
\* calls that fail on their own data are each counted once as failed and every
\* other call that was not skipped is synced with its Recording row written in
\* this run and the Segments and Speakers of its transcript.
C7_Isolation ==
  /\ pc = "failed" => failCause \in {"listAllCalls", "rate limit"}
  /\ pc = "done" => Len(results) = Len(calls)
  /\ faults = 0 =>
       /\ FailedCount =
            Cardinality({i \in 1..Len(results) :
                           FailsOnItsOwn(calls[i]) /\ ~results[i].skipped})
       /\ \A i \in 1..Len(results) :
            (~FailsOnItsOwn(calls[i]) /\ ~results[i].skipped)
              => /\ results[i].synced
                 /\ \E row \in RecordingRows(db, RecordingId(calls[i].metaData.id)) :
                      row.synced_at >= startedAt
                 /\ StoredSegments(calls[i]) = FetchedSegments(calls[i])
                 /\ StoredSpeakers(calls[i]) = FetchedSpeakers(calls[i])

\* C8 (the claim): no error raised inside the per-call step, the freshness check
\* included, ends the run.
C8_NothingEscapes ==
  ~(pc = "failed" /\ failCause = "isRecentlySynced")

\* the offsets of the chunks of the listing
ChunkStarts == {c \in 0..Len(calls) : c % TRANSCRIPT_BATCH_SIZE = 0 /\ c < Len(calls)}

\* the requests and sleeps of the run for the chunk at offset c, in order
ChunkLog(c) == SelectSeq(fetchLog, LAMBDA e : e.chunk = c)
ChunkRequests(c) == SelectSeq(fetchLog, LAMBDA e : e.chunk = c /\ e.ev = "request")

\* the chunk at offset c got a rate-limit error twice and then a success
TwiceLimitedThenOk(c) ==
  /\ Len(ChunkRequests(c)) >= 3
  /\ ChunkRequests(c)[1].kind = "ratelimit"
  /\ ChunkRequests(c)[2].kind = "ratelimit"
  /\ ChunkRequests(c)[3].kind = "ok"

\* C9: when the transcript request of a chunk is rate-limited twice and then
\* succeeds, the run has slept exactly twice for it, each time for the duration
\* of the error just received, has stored the transcripts of the chunk and has
\* gone on to the next chunk with a fresh retry count.
C9_Backoff ==
  \A c \in ChunkStarts :
    TwiceLimitedThenOk(c)
      => /\ ChunkLog(c) =
              << ChunkRequests(c)[1],
                 LogEntry("sleep", c, "sleep", ChunkRequests(c)[1].value * 1000),
                 ChunkRequests(c)[2],
                 LogEntry("sleep", c, "sleep", ChunkRequests(c)[2].value * 1000),
                 ChunkRequests(c)[3] >>
         /\ \A i \in (c + 1)..Min(c + TRANSCRIPT_BATCH_SIZE, Len(calls)) :
              ~IsNone(ProfileEntries(calls[i].profile))
                => /\ MapHas(transcriptMap, calls[i].metaData.id)
                   /\ transcriptMap[calls[i].metaData.id].callId = calls[i].metaData.id
         /\ batchStart >= c + TRANSCRIPT_BATCH_SIZE
         /\ (batchStart = c + TRANSCRIPT_BATCH_SIZE /\ ChunkLog(batchStart) = << >>)
              => retryCount = 0

\* C9 witness: a chunk was rate-limited with two different durations, then
\* fetched, and the next chunk has been requested
C9_Witness ==
  \E c \in ChunkStarts :
    /\ TwiceLimitedThenOk(c)
    /\ ChunkRequests(c)[1].value /= ChunkRequests(c)[2].value
    /\ ChunkRequests(c + TRANSCRIPT_BATCH_SIZE) /= << >>

\* C10: a chunk is requested at most MAX_RETRIES_PER_BATCH times, and a request
\* of a chunk already requested directly follows a sleep of the duration carried
\* by the rate-limit error that the preceding request of the chunk got.
C10_BoundedRetries ==
  /\ \A c \in ChunkStarts : Len(ChunkRequests(c)) <= MAX_RETRIES_PER_BATCH
  /\ \A k \in 1..Len(fetchLog) :
       ( /\ fetchLog[k].ev = "request"
         /\ \E j \in 1..(k - 1) :
              fetchLog[j].ev = "request" /\ fetchLog[j].chunk = fetchLog[k].chunk )
         => /\ k >= 3
            /\ fetchLog[k - 2].ev = "request"
            /\ fetchLog[k - 2].chunk = fetchLog[k].chunk
            /\ fetchLog[k - 2].kind = "ratelimit"
            /\ fetchLog[k - 1] =
                 LogEntry("sleep", fetchLog[k].chunk, "sleep", fetchLog[k - 2].value * 1000)

\* C10 witness: a chunk that got an error other than a rate limit was requested
\* once, and the run ended on the third rate-limit error of the next chunk
C10_Witness ==
  /\ pc = "failed"
  /\ failCause = "rate limit"
  /\ \E c \in ChunkStarts :
       /\ Len(ChunkRequests(c)) = 1
       /\ ChunkRequests(c)[1].kind = "error"
       /\ Len(ChunkRequests(c + TRANSCRIPT_BATCH_SIZE)) = MAX_RETRIES_PER_BATCH

\* the first MAX_RETRIES_PER_BATCH requests of the chunk at offset c were all
\* answered with a rate-limit signal
RateCapExceeded(c) ==
  /\ Len(ChunkRequests(c)) >= MAX_RETRIES_PER_BATCH
  /\ \A k \in 1..MAX_RETRIES_PER_BATCH : ChunkRequests(c)[k].kind = "ratelimit"

\* C11: when the requests of a chunk are rate-limited up to the retry cap, the
\* run has failed with the rate-limit error: the last request of the run is the
\* one that hit the cap, no later chunk was requested, no call was processed and
\* the store is the one the run started with.
C11_RateCapFatal ==
  \A c \in ChunkStarts :
    RateCapExceeded(c)
      => /\ pc = "failed"
         /\ failCause = "rate limit"
         /\ Len(ChunkRequests(c)) = MAX_RETRIES_PER_BATCH
         /\ fetchLog[Len(fetchLog)] = ChunkRequests(c)[MAX_RETRIES_PER_BATCH]
         /\ \A k \in 1..Len(fetchLog) : fetchLog[k].chunk <= c
         /\ results = << >>
         /\ written = {}
         /\ db = prev.db

\* C11 witness: the second chunk hit the cap after the first was fetched, in a
\* run over a store an earlier run filled
C11_Witness ==
  /\ db.recordings /= {}
  /\ db.segments /= {}
  /\ \E c \in ChunkStarts :
       /\ c > 0
       /\ RateCapExceeded(c)
       /\ ChunkRequests(0) /= << >>
       /\ ChunkRequests(0)[Len(ChunkRequests(0))].kind = "ok"

\* the positions of the calls of the chunk at offset c
ChunkCalls(c) == (c + 1)..Min(c + TRANSCRIPT_BATCH_SIZE, Len(calls))

\* the last request of the chunk at offset c got an error that is no rate limit
ChunkErrored(c) ==
  /\ ChunkRequests(c) /= << >>
  /\ ChunkRequests(c)[Len(ChunkRequests(c))].kind = "error"

\* C12: a request of a chunk that fails with an error other than a rate limit is
\* the last request of that chunk and does not fail the run; the transcripts of
\* the chunk are absent, every chunk has been requested when the processing
\* starts, and the calls of the chunk that have a media URL are synced as
\* Recordings without Segments and Speakers.
C12_ChunkErrorDegrades ==
  /\ \A c \in ChunkStarts :
       \A k \in 1..Len(ChunkRequests(c)) :
         ChunkRequests(c)[k].kind = "error"
           => /\ k = Len(ChunkRequests(c))
              /\ batchStart > c
              /\ pc = "failed" => (failCause = "rate limit" /\ RateCapExceeded(batchStart))
              /\ \A i \in ChunkCalls(c) :
                   /\ ~MapHas(transcriptMap, calls[i].metaData.id)
                   /\ (i <= Len(results) /\ MediaUrl(calls[i]) /= Null /\ ~results[i].skipped)
                        => /\ results[i].synced
                           /\ RecordingRows(db, RecordingId(calls[i].metaData.id)) /= {}
                           /\ StoredSegments(calls[i]) = {}
                           /\ StoredSpeakers(calls[i]) = {}
  /\ pc \in {"processing", "done"} => \A c \in ChunkStarts : ChunkRequests(c) /= << >>

\* C12 witness: a complete run in which the first chunk got an error and the next
\* chunk was fetched; a call of the first chunk whose transcript the provider has
\* is stored without Segments, a call of the next chunk with Segments
C12_Witness ==
  /\ pc = "done"
  /\ ChunkErrored(0)
  /\ \E i \in ChunkCalls(0) :
       /\ ~IsNone(ProfileEntries(calls[i].profile))
       /\ results[i].synced
       /\ StoredSegments(calls[i]) = {}
  /\ \E j \in ChunkCalls(TRANSCRIPT_BATCH_SIZE) :
       /\ results[j].synced
       /\ StoredSegments(calls[j]) /= {}

\* a page request of this run's listing failed
ListingFailed == \E k \in 1..Len(listLog) : listLog[k].kind /= "ok"

\* C13: when a page request of the listing fails, it is the last page request of
\* the run, the run has ended, no call was handed to the run, no transcript was
\* requested, no call was processed and the store is the one the run started with.
C13_NoPartialListing ==
  ListingFailed
    => /\ listLog[Len(listLog)].kind /= "ok"
       /\ \A k \in 1..(Len(listLog) - 1) : listLog[k].kind = "ok"
       /\ pc \in {"returned", "failed"}
       /\ calls = << >>
       /\ fetchLog = << >>
       /\ results = << >>
       /\ written = {}
       /\ db = prev.db

\* C13 witness: the second page request failed after a page of calls had been
\* received, in a run over a store an earlier run filled
C13_Witness ==
  /\ ListingFailed
  /\ Len(listLog) >= 2
  /\ allCalls /= << >>
  /\ db.recordings /= {}

\* C14 (the claim): a rate-limit signal answered to a page request of the listing
\* does not by itself end the run.
C14_ListRateLimitRecoverable ==
  (listLog /= << >> /\ listLog[Len(listLog)].kind = "ratelimit")
    => pc \notin {"returned", "failed"}

\* the store holds a Recording row of the call that was synced less than one
\* hour before the current time
FreshRowExists(callData) ==
  \E row \in db.recordings :
    /\ row.id = << "gong_", callData.metaData.id >>
    /\ now - row.synced_at < ONE_HOUR

\* C15: the per-call step reports skipped exactly when --force is absent and the
\* store holds a Recording row of the call synced less than one hour ago, and a
\* skipped step leaves the store as it was.
C15_SkipDecision ==
  [][ (pc = "processing" /\ Len(results') = Len(results) + 1)
        => /\ results'[Len(results')].skipped
                <=> (~force /\ FreshRowExists(calls[Len(results) + 1]))
           /\ results'[Len(results')].skipped => (db' = db /\ written' = written) ]_vars

\* C15 witness: without --force, a call whose Recording row is exactly one hour
\* old was not skipped but synced again
C15_Witness ==
  /\ runs >= 2
  /\ ~force
  /\ \E i \in 1..Len(results) :
       /\ results[i].synced
       /\ \E row \in prev.db.recordings :
            /\ row.id = << "gong_", calls[i].metaData.id >>
            /\ now - row.synced_at = ONE_HOUR

\* the outcome of the per-call step for the call on an empty store, with the
\* transcripts of this run
FirstTimeSync(callData) ==
  CHOOSE o \in processCall(EmptyDb, callData, transcriptMap, FALSE, now, FALSE, FALSE) : TRUE

\* C16: in a run with --force, the step of a call that an earlier run synced
\* reports what a first-time sync into an empty store reports and leaves the
\* Segment and Speaker rows of that first-time sync; unless the call fails on the
\* data of this run, it is synced and its Recording row is written again, inside
\* the freshness window too.
C16_ForcedResync ==
  (force /\ runs >= 2)
    => \A i \in 1..Len(results) :
         calls[i].metaData.id \in prev.synced
           => /\ results[i] = FirstTimeSync(calls[i]).result
              /\ StoredSegments(calls[i]) = FirstTimeSync(calls[i]).db.segments
              /\ StoredSpeakers(calls[i]) = FirstTimeSync(calls[i]).db.speakers
              /\ ~FailsOnItsOwn(calls[i])
                   => /\ results[i].synced
                      /\ RecordingId(calls[i].metaData.id) \in written
                      /\ \A row \in RecordingRows(db, RecordingId(calls[i].metaData.id)) :
                           row.synced_at = now

\* C16 witness: a forced run inside the freshness window has synced again a call
\* whose Segments the previous run stored
C16_Witness ==
  /\ force
  /\ runs >= 2
  /\ WithinWindow
  /\ \E i \in 1..Len(results) :
       /\ calls[i].metaData.id \in prev.synced
       /\ results[i].synced
       /\ RowsOf(prev.db.segments, RecordingId(calls[i].metaData.id)) /= {}
       /\ StoredSegments(calls[i]) /= {}

\* C17 (the claim): the step of a call without a media URL of its media kind
\* writes nothing and is not counted as failed (neither synced nor skipped).
C17_NoMediaIsSkip ==
  \A i \in 1..Len(results) :
    MediaUrl(calls[i]) = Null
      => /\ RecordingId(calls[i].metaData.id) \notin written
         /\ ~(~results[i].synced /\ ~results[i].skipped)

\* a credential of the provider is unset or empty in the environment of the run
CredentialsMissing ==
  \/ env.GONG_ACCESS_KEY \in {Null, ""}
  \/ env.GONG_ACCESS_KEY_SECRET \in {Null, ""}

\* C18: a run started without credentials has returned without entering the
\* listing, transcript or processing phase: no page and no transcript was
\* requested, no call was processed and the store is the one the run started with.
C18_NoCredentials ==
  (runs >= 1 /\ CredentialsMissing)
    => /\ pc = "returned"
       /\ listLog = << >>
       /\ fetchLog = << >>
       /\ calls = << >>
       /\ results = << >>
       /\ written = {}
       /\ db = prev.db

\* C18 witness: a run without credentials over a store an earlier run filled
C18_Witness ==
  /\ runs >= 2
  /\ CredentialsMissing
  /\ pc = "returned"
  /\ db.recordings /= {}

\* the pages of the provider's listing
PageCount == NumPages(Len(provider), limits.pageSize)

\* the calls of page k of the provider's listing
PageCalls(k) ==
  SubSeq(CallList(provider), (k - 1) * limits.pageSize + 1,
         Min(k * limits.pageSize, Len(provider)))

\* the calls of pages 1..k, in page order
RECURSIVE PagesUpTo(_)
PagesUpTo(k) == IF k = 0 THEN << >> ELSE PagesUpTo(k - 1) \o PageCalls(k)

\* every page request of the run was answered without error
AllPagesOk == \A k \in 1..Len(listLog) : listLog[k].kind = "ok"

\* C19: the first page request carries no cursor and request k + 1 carries the
\* cursor the provider gave with page k; there is no request after a failed one
\* or after the last page, so at most one request per page; while the requests
\* succeed the calls received are those of the pages requested, in page order,
\* and once the last page is received the listing is over and the run has all
\* the calls of the provider, each once.
C19_Pagination ==
  /\ Len(listLog) <= PageCount
  /\ \A k \in 1..Len(listLog) :
       /\ listLog[k].cursor = IF k = 1 THEN Null ELSE Cursors[k - 1]
       /\ k < Len(listLog) => listLog[k].kind = "ok"
  /\ AllPagesOk => allCalls = PagesUpTo(Len(listLog))
  /\ (AllPagesOk /\ Len(listLog) = PageCount)
       => /\ pc /= "listing"
          /\ calls = CallList(provider)
          /\ \A i, j \in 1..Len(calls) :
               calls[i].metaData.id = calls[j].metaData.id => i = j

\* C19 witness: a listing of three pages was received with three requests
C19_Witness ==
  /\ PageCount = 3
  /\ Len(listLog) = 3
  /\ listLog[3].cursor = Cursors[2]
  /\ AllPagesOk
  /\ Len(calls) = 3
  /\ pc = "fetching"

\* the rows of the store that belong to recordings of this provider, and the rest
GongPart(d) ==
  [ recordings |-> {r \in d.recordings : r.id[1] = "gong_"},
    segments |-> {r \in d.segments : r.recording_id[1] = "gong_"},
    speakers |-> {r \in d.speakers : r.recording_id[1] = "gong_"},
    summaries |-> {r \in d.summaries : r.recording_id[1] = "gong_"} ]

OtherPart(d) ==
  [ recordings |-> {r \in d.recordings : r.id[1] /= "gong_"},
    segments |-> {r \in d.segments : r.recording_id[1] /= "gong_"},
    speakers |-> {r \in d.speakers : r.recording_id[1] /= "gong_"},
    summaries |-> {r \in d.summaries : r.recording_id[1] /= "gong_"} ]

\* the recording ids of the calls of the provider's listing
ListedRecordings == {<< "gong_", CallIds[i] >> : i \in 1..Len(provider)}

\* C20: the rows of recordings with another id prefix are always those the other
\* writer alone would have left, the run issues write statements only for the
\* recordings 'gong_<id>' of the calls of its listing, and every step changes the
\* rows of this provider either not at all or as the per-call step does on a
\* store that holds no other rows.
C20_Frame ==
  /\ [](/\ OtherPart(db) = otherDb
        /\ written \subseteq ListedRecordings
        /\ \A r \in GongPart(db).recordings : r.id \in ListedRecordings)
  /\ [][ \/ GongPart(db') = GongPart(db)
         \/ /\ pc = "processing"
            /\ \E o \in processCall(GongPart(db), calls[Len(results) + 1], transcriptMap,
                                    force, now, FALSE, kills < limits.kills) :
                 GongPart(db') = o.db ]_vars

\* C20 witness: a call was synced again over its earlier rows while the other
\* writer's recording, stored during the run, is in the store with its rows
C20_Witness ==
  /\ runs >= 2
  /\ \E i \in 1..Len(results) :
       /\ results[i].synced
       /\ RowsOf(prev.db.speakers, RecordingId(calls[i].metaData.id)) /= {}
  /\ OtherRecording(now) \in db.recordings
  /\ OtherRecording(now) \notin prev.db.recordings
  /\ OtherSpeaker \in db.speakers

\* C21: the freshness check does not serialise two overlapping runs without
\* --force: a run that has passed the check of a call goes on to its try block
\* whatever the other run has written since, so its step never reports skipped
\* and, when it reports synced, the Recording row carries the time of this write.
C21_NotSerialised ==
  [][ \A p \in Procs :
        (racers[p].pc = "write" /\ racers'[p].pc /= "write")
          => LET result == racers'[p].results[Len(racers'[p].results)]
             IN /\ ~result.skipped
                /\ result.synced
                     => \E row \in db'.recordings :
                          /\ row.id = << "gong_", RaceCall(p).metaData.id >>
                          /\ row.synced_at = now ]_vars

\* C21 witness: both runs have synced the same call within one freshness window,
\* one of them over the fresh row the other had just written
C21_Witness ==
  /\ now < ONE_HOUR
  /\ \E p \in Procs : racers[p].raced
  /\ \E i \in 1..Len(provider) :
       \A p \in Procs : Len(racers[p].results) >= i /\ racers[p].results[i].synced


\* C22: a bulk insert of segments or of speakers is all-or-nothing: when a row
\* fails, or the process ends part-way through the rows, the table is as it was
\* before the insert (none of the rows is committed); otherwise it holds every
\* row of the batch
C22_Failing(in) ==
  \/ ~in.hasParent
  \/ in.crashAt /= 0
  \/ \E i \in 1..Len(in.rows) : \E r \in in.table : r.id = in.rows[i].id
  \/ \E i, j \in 1..Len(in.rows) : i /= j /\ in.rows[i].id = in.rows[j].id

C22_AllOrNothing ==
  (pure.fn = "insert" /\ pure.done)
    => IF C22_Failing(pure.in)
       THEN pure.out.table = pure.in.table /\ pure.out.end /= "done"
       ELSE pure.out.table = pure.in.table \cup Range(pure.in.rows)
            /\ pure.out.end = "done"

\* a batch whose second row fails after its first row was inserted
C22_Witness ==
  /\ pure.fn = "insert" /\ pure.done
  /\ pure.in.hasParent /\ pure.in.crashAt = 0
  /\ Len(pure.in.rows) >= 2
  /\ \A r \in pure.in.table : r.id /= pure.in.rows[1].id
  /\ \E r \in pure.in.table \cup {pure.in.rows[1]} : r.id = pure.in.rows[2].id
  /\ pure.out.end = "threw"

\* C23: after upsertRecording(record) the store holds exactly one row with the
\* record's id; each of its columns is the record's value, NULL where the record
\* has none, and synced_at is the time of the call; nothing of the row that was
\* there before is kept; the rows of other ids are as before
C23_Row(rec, t) ==
  [ id |-> rec.id,
    title |-> rec.title,
    description |-> IF rec.description = UndefinedStr THEN Null ELSE rec.description,
    video_url |-> rec.videoUrl,
    duration |-> rec.duration,
    space |-> rec.space,
    source |-> rec.source,
    media_type |-> rec.mediaType,
    media_url_expires_at |-> IF rec.mediaUrlExpiresAt = UndefinedTime
                             THEN NullTime ELSE rec.mediaUrlExpiresAt,
    created_at |-> rec.createdAt,
    synced_at |-> t ]

C23_UpsertFrame ==
  (pure.fn = "upsert" /\ pure.done)
    => LET rec == pure.in.recording
       IN /\ {r \in pure.out.recordings : r.id = rec.id} = {C23_Row(rec, pure.in.t)}
          /\ {r \in pure.out.recordings : r.id /= rec.id}
               = {r \in pure.in.db.recordings : r.id /= rec.id}

\* a record without its optional fields replaces a row of the same id next to a
\* row of another id, later than that row was written
C23_Witness ==
  /\ pure.fn = "upsert" /\ pure.done
  /\ OldRecording \in pure.in.db.recordings
  /\ NeighbourRecording \in pure.in.db.recordings
  /\ pure.in.recording.description = UndefinedStr
  /\ pure.in.recording.mediaUrlExpiresAt = UndefinedTime
  /\ pure.in.t > OldRecording.synced_at

\* C24: a response with status 429 makes gongFetch throw the rate-limit error
\* with the seconds of the Retry-After header, or 60 when the header is absent
\* or empty; any other status outside 200..299 makes it throw the generic
\* error, whose message carries the status and the body, never the rate-limit
\* error
C24_Seconds(header) ==
  CASE header = "0" -> 0
    [] header = "30" -> 30
    [] header = "45s" -> 45
    [] header = "1800" -> 1800
    [] OTHER -> 60

C24_ErrorKinds ==
  (pure.fn = "fetch" /\ pure.done)
    => LET response == pure.in
           thrown == pure.out
       IN /\ response.status = 429
               => /\ thrown.kind = "ratelimit"
                  /\ thrown.retryAfterSeconds = C24_Seconds(response.retryAfter)
          /\ (response.status /= 429 /\ (response.status < 200 \/ response.status > 299))
               => /\ thrown.kind = "error"
                  /\ thrown.message[2] = response.status
                  /\ thrown.message[4] = response.body
          /\ (response.status >= 200 /\ response.status <= 299) => thrown.kind = "ok"

\* a 429 without the header, answered by the rate-limit error of 60 seconds
C24_Witness ==
  /\ pure.fn = "fetch" /\ pure.done
  /\ pure.in.status = 429 /\ pure.in.retryAfter = Null
  /\ pure.out.kind = "ratelimit" /\ pure.out.retryAfterSeconds = 60

\* C25: the expiry stored with a Recording is the time its media URL was
\* fetched plus 8 hours, never later, also when the run slept for a rate limit
\* between the listing and the processing of the call.  The URLs come with the
\* listing, which is answered in the tick the run started in (no step of the
\* listing advances the clock).
C25_FetchedAt == startedAt

C25_ExpiryFixedAtFetch ==
  \A row \in db.recordings :
    row.id \in written
      => row.media_url_expires_at = C25_FetchedAt + MEDIA_URL_EXPIRY_HOURS * ONE_HOUR

\* C26: when a run has completed, there is one result per listed call, every
\* result is counted by exactly one of the counters synced, skipped and failed,
\* and the three counters add up to the number of listed calls
C26_CountersPartition ==
  pc = "done"
    => /\ Len(results) = Len(calls)
       /\ \A i \in 1..Len(results) : ~(results[i].synced /\ results[i].skipped)
       /\ SyncedCount + SkippedCount + FailedCount = Len(calls)

\* a completed run over two calls, one skipped and one failed
C26_Witness ==
  /\ pc = "done"
  /\ Len(calls) = 2
  /\ SkippedCount = 1
  /\ FailedCount = 1

\* C27: the exit code of a process that has ended is non-zero exactly when an
\* error escaped the run (the run did not return, be it at its end or early
\* for missing credentials, an empty listing or a rate-limited listing); a run
\* that completed exits with 0 whatever the results of its calls
C27_ErrorEscaped == failCause \notin {Null, "not configured", "list rate limit"}

C27_ExitCode ==
  Exited
    => /\ (ExitCode /= 0) <=> C27_ErrorEscaped
       /\ pc = "done" => ExitCode = 0

\* a completed run with a failed call, exit code 0
C27_Witness ==
  /\ pc = "done"
  /\ \E i \in 1..Len(results) : ~results[i].synced /\ ~results[i].skipped
  /\ ExitCode = 0

\* C28: the segments parseGongTranscript returns are the flattened sentences
\* (seg-1, seg-2, ... in the order of the entries and their sentences) in
\* ascending order of startTime, and two segments with the same startTime are
\* in the order of their flattening
C28_Flattened(transcript) ==
  LET lens == [e \in 1..Len(transcript) |-> Len(transcript[e].sentences[1])]
      all == UNION {{<< e, k >> : k \in 1..lens[e]} : e \in 1..Len(transcript)}
      before(x) == Cardinality({y \in all : y[1] < x[1] \/ (y[1] = x[1] /\ y[2] < x[2])})
  IN {[n |-> before(x) + 1, start |-> transcript[x[1]].sentences[1][x[2]].start] : x \in all}

C28_SortedStable ==
  (pure.fn = "parse" /\ pure.done)
    => LET out == pure.out
       IN /\ {[n |-> out[i].id[2], start |-> out[i].startTime.num] : i \in 1..Len(out)}
               = C28_Flattened(pure.in.transcript)
          /\ Len(out) = Cardinality(C28_Flattened(pure.in.transcript))
          /\ \A i, j \in 1..Len(out) :
               i < j => \/ out[i].startTime.num < out[j].startTime.num
                        \/ /\ out[i].startTime.num = out[j].startTime.num
                           /\ out[i].id[2] < out[j].id[2]

\* two sentences of different entries with the same start, and a later
\* sentence that starts before them
C28_Witness ==
  /\ pure.fn = "parse" /\ pure.done
  /\ Len(pure.out) >= 3
  /\ \E i \in 1..(Len(pure.out) - 1) :
       /\ pure.out[i].startTime = pure.out[i + 1].startTime
       /\ pure.out[i].speaker /= pure.out[i + 1].speaker
  /\ pure.out[1].id[2] > 1

\* C29: extractSpeakers returns one Speaker per distinct speaker name of the
\* segments, in the order in which the names first appear; the i-th Speaker,
\* counting from 0, has the colour at index i mod 10 of the palette, so that
\* the 11th has the colour of the first
C29_FirstAt(segs, name) == CHOOSE i \in 1..Len(segs) :
  /\ segs[i].speaker = name
  /\ \A j \in 1..(i - 1) : segs[j].speaker /= name

C29_SpeakerColours ==
  (pure.fn = "extract" /\ pure.done)
    => LET segs == pure.in
           out == pure.out
       IN /\ {out[i].name : i \in 1..Len(out)} = {segs[i].speaker : i \in 1..Len(segs)}
          /\ \A i, j \in 1..Len(out) :
               i < j => C29_FirstAt(segs, out[i].name) < C29_FirstAt(segs, out[j].name)
          /\ \A i \in 1..Len(out) : out[i].color = SPEAKER_COLORS[((i - 1) % 10) + 1]
          /\ Len(out) >= 11 => out[11].color = out[1].color

\* eleven distinct speakers and a segment of a speaker seen before
C29_Witness ==
  /\ pure.fn = "extract" /\ pure.done
  /\ Len(pure.out) = 11
  /\ Len(pure.in) > Len(pure.out)
  /\ pure.out[11].color = SPEAKER_COLORS[1]

\* C30: within a run the listing, the fetching of the transcripts and the
\* processing of the calls follow one another: a transcript request is sent
\* only when the last page of the listing has been received (the run has all
\* calls of the provider), and none is sent together with a page request; the
\* store is written only when for every chunk a request has succeeded or the
\* chunk has been given up after an error; once the processing has begun (a
\* call has a result or a row has been written) no request goes to the provider
C30_ListingOver ==
  /\ calls = CallList(provider)
  /\ Len(listLog) = PageCount
  /\ AllPagesOk

C30_FetchingOver ==
  \A c \in ChunkStarts :
    \E k \in 1..Len(fetchLog) :
      /\ fetchLog[k].ev = "request"
      /\ fetchLog[k].chunk = c
      /\ fetchLog[k].kind \in {"ok", "error"}

C30_PhaseOrder ==
  [][ runs' = runs
        => /\ fetchLog' /= fetchLog => (C30_ListingOver /\ listLog' = listLog)
           /\ db' /= db => (C30_ListingOver /\ C30_FetchingOver)
           /\ (db' /= db \/ results /= << >> \/ written /= {} \/ pc = "processing")
                => (fetchLog' = fetchLog /\ listLog' = listLog) ]_vars

\* a run that listed three pages, was rate-limited while fetching the two
\* chunks, and has then written rows
C30_Witness ==
  /\ Len(listLog) = 3
  /\ \E k \in 1..Len(fetchLog) : fetchLog[k].ev = "sleep"
  /\ C30_FetchingOver
  /\ written /= {}
  /\ db.recordings /= {}

\* C31: a run that keeps taking its steps ends (sync() returns or throws), and
\* for n listed calls, in chunks of TRANSCRIPT_BATCH_SIZE, it sends at most
\* 3 * ceil(n / size) transcript requests and sleeps at most 2 * ceil(n / size)
\* times, whatever the provider answers
C31_Chunks == (Len(calls) + TRANSCRIPT_BATCH_SIZE - 1) \div TRANSCRIPT_BATCH_SIZE

C31_Count(ev) == Cardinality({k \in 1..Len(fetchLog) : fetchLog[k].ev = ev})

C31_Terminates ==
  /\ [](C31_Count("request") <= 3 * C31_Chunks /\ C31_Count("sleep") <= 2 * C31_Chunks)
  /\ (pc \in {"listing", "fetching", "sleeping", "processing"})
       ~> (pc \in {"done", "returned", "failed"})

\* a completed run over one chunk that was rate-limited twice: three requests
\* and two sleeps
C31_Witness ==
  /\ pc = "done"
  /\ C31_Chunks = 1
  /\ C31_Count("request") = 3
  /\ C31_Count("sleep") = 2

\* C32: the listed calls are split in list order into consecutive chunks of at
\* most TRANSCRIPT_BATCH_SIZE ids (50 in the script): every transcript request
\* carries the ids of the calls of exactly one chunk, never more than the chunk
\* size, and once the requests are over the chunks requested, taken in order,
\* are the listed calls, each once
C32_Requests == SelectSeq(fetchLog, LAMBDA e : e.ev = "request")

RECURSIVE C32_Concat(_, _)
C32_Concat(reqs, last) ==
  IF reqs = << >> THEN << >>
  ELSE IF Head(reqs).chunk = last THEN C32_Concat(Tail(reqs), last)
  ELSE Head(reqs).callIds \o C32_Concat(Tail(reqs), Head(reqs).chunk)

C32_Chunking ==
  /\ \A k \in 1..Len(C32_Requests) :
       LET req == C32_Requests[k]
       IN /\ Len(req.callIds) >= 1
          /\ Len(req.callIds) <= TRANSCRIPT_BATCH_SIZE
          /\ req.chunk % TRANSCRIPT_BATCH_SIZE = 0
          /\ \A j \in 1..Len(req.callIds) :
               /\ req.chunk + j <= Len(calls)
               /\ req.callIds[j] = calls[req.chunk + j].metaData.id
          /\ (Len(req.callIds) < TRANSCRIPT_BATCH_SIZE)
               => req.chunk + Len(req.callIds) = Len(calls)
  /\ pc \in {"processing", "done"}
       => C32_Concat(C32_Requests, 0 - 1)
            = [i \in 1..Len(calls) |-> calls[i].metaData.id]

\* three listed calls fetched in a chunk of two and a chunk of one, the first
\* of them requested again after a rate limit
C32_Witness ==
  /\ pc = "processing"
  /\ Len(calls) = 3
  /\ \E k \in 1..Len(C32_Requests) : Len(C32_Requests[k].callIds) = 1
  /\ Len(C32_Requests) > 2

\* C33: a call whose step reported failure in a run is not skipped as recently
\* synced by the next run without --force: that run attempts the call again.
\* (The first run starts on an empty store and skips nothing, so a call it did
\* not report as synced is one whose step failed.)
C33_FailedIsRetried ==
  (runs = 2 /\ prev.pc = "done" /\ ~force)
    => \A i \in 1..Len(results) :
         calls[i].metaData.id \notin prev.synced => ~results[i].skipped

\* C34: the full-row replace of a Recording leaves the Summary of the recording
\* as it was: the summaries after upsertRecording are those before it
C34_SummaryKept ==
  (pure.fn = "upsert" /\ pure.done) => pure.out.summaries = pure.in.db.summaries

\* C35: the Speakers extractSpeakers returns for one recording have pairwise
\* distinct ids, also for names that differ only in letter case or whitespace
C35_DistinctSpeakerIds ==
  (pure.fn = "extract" /\ pure.done)
    => \A i, j \in 1..Len(pure.out) : i /= j => pure.out[i].id /= pure.out[j].id

\* C36: when a step for a stored recording is not skipped and the run has no
\* transcript for the call (none in the map, or an empty one), the step reports
\* the call synced, the Recording row is rewritten (synced_at is the time of
\* the step, the columns are those of the call) and the recording is left
\* without Segments and Speakers; the rows of other recordings stay
C36_NoTranscript(in) ==
  \/ ~MapHas(in.tmap, in.callData.metaData.id)
  \/ in.tmap[in.callData.metaData.id].transcript = << >>

C36_Cleared ==
  (pure.fn = "step" /\ pure.done /\ C36_NoTranscript(pure.in))
    => \A o \in pure.out :
         ~o.result.skipped
           => LET rid == << "gong_", pure.in.callData.metaData.id >>
              IN /\ o.result.synced
                 /\ \E row \in o.db.recordings :
                      /\ row.id = rid
                      /\ row.synced_at = pure.in.t
                      /\ row.media_type = MediaType(pure.in.callData.metaData.media)
                      /\ \A other \in o.db.recordings : other.id = rid => other = row
                 /\ {r \in o.db.segments : r.recording_id = rid} = {}
                 /\ {r \in o.db.speakers : r.recording_id = rid} = {}
                 /\ {r \in o.db.segments : r.recording_id /= rid}
                      = {r \in pure.in.db.segments : r.recording_id /= rid}
                 /\ {r \in o.db.speakers : r.recording_id /= rid}
                      = {r \in pure.in.db.speakers : r.recording_id /= rid}

\* a step outside the freshness window, without --force, for a stored recording
\* with Segments and Speakers whose transcript came back empty
C36_Witness ==
  /\ pure.fn = "step" /\ pure.done
  /\ ~pure.in.force
  /\ MapHas(pure.in.tmap, pure.in.callData.metaData.id)
  /\ C36_NoTranscript(pure.in)
  /\ \E r \in pure.in.db.segments : r.recording_id = << "gong_", pure.in.callData.metaData.id >>
  /\ \E r \in pure.in.db.speakers : r.recording_id = << "gong_", pure.in.callData.metaData.id >>
  /\ \E o \in pure.out : o.result.synced /\ o.db /= pure.in.db

\* C37: parseGongTranscript returns exactly one Segment per sentence: the k-th
\* sentence in the order of the entries and of the sentences inside an entry
\* has the id seg-k (k from 1), so the ids are unique; its start and end are the
\* sentence's milliseconds over 1000, its text the sentence's, and its speaker
\* the name the parties give for the entry's speaker id, "Speaker" when they
\* give none
C37_Name(speakerId) ==
  CASE speakerId = "s1" -> << "A", "l", " ", "B", "o" >>
    [] speakerId = "p2" -> << "c", "y", "@", "x" >>
    [] OTHER -> << "S", "p", "e", "a", "k", "e", "r" >>

C37_Expected(transcript) ==
  LET count(e) == Len(transcript[e].sentences[1])
      all == UNION {{<< e, j >> : j \in 1..count(e)} : e \in 1..Len(transcript)}
      k(x) == Cardinality({y \in all : y[1] < x[1] \/ (y[1] = x[1] /\ y[2] <= x[2])})
      sentence(x) == transcript[x[1]].sentences[1][x[2]]
  IN {[ id |-> << "seg-", k(x) >>,
        startTime |-> [num |-> sentence(x).start, den |-> 1000],
        endTime |-> [num |-> sentence(x).end, den |-> 1000],
        speaker |-> C37_Name(transcript[x[1]].speakerId),
        text |-> sentence(x).text ] : x \in all}

C37_OneSegmentPerSentence ==
  (pure.fn = "parse" /\ pure.done)
    => /\ {pure.out[i] : i \in 1..Len(pure.out)} = C37_Expected(pure.in.transcript)
       /\ Len(pure.out) = Cardinality(C37_Expected(pure.in.transcript))
       /\ \A i, j \in 1..Len(pure.out) : i /= j => pure.out[i].id /= pure.out[j].id

\* two entries of two sentences, the second of a speaker the parties do not name
C37_Witness ==
  /\ pure.fn = "parse" /\ pure.done
  /\ Len(pure.out) = 4
  /\ pure.in.transcript[2].speakerId = "s9"
  /\ \E i \in 1..4 : pure.out[i].id = << "seg-", 4 >> /\ pure.out[i].speaker = Str_Speaker

\* C38: a call returns the cached token without a token request only while the
\* clock is more than 5 minutes before the stored expiry; every other call of a
\* configured process requests a new token; the cached token and its expiry
\* change only together, when an exchange succeeds, and a failed exchange
\* leaves both as they were.
C38_Step(p) ==
  LET before == zoom.calls[p]
      after == zoom'.calls[p]
      cacheKept == zoom'.cachedToken = zoom.cachedToken /\ zoom'.tokenExpiry = zoom.tokenExpiry
      fresh == zoom.cachedToken /= NoToken /\ zoom.clock < zoom.tokenExpiry - 300000
  IN /\ (before.pc = "idle" /\ after.ret.kind = "cache")
          => /\ fresh
             /\ after.ret.token = << zoom.cachedToken[1].access_token >>
             /\ after.pc = "idle"
             /\ zoom'.requests = zoom.requests
             /\ cacheKept
     /\ (before.pc = "idle" /\ zoom.configured /\ ~fresh)
          => /\ after.pc = "fetching"
             /\ zoom'.requests = zoom.requests + 1
             /\ cacheKept
     /\ after.ret.kind = "exchange"
          => /\ zoom'.cachedToken = before.body
             /\ zoom'.tokenExpiry = zoom.clock + before.body[1].expires_in * 1000
             /\ after.ret.token = << before.body[1].access_token >>
     /\ after.ret.kind = "threw" => cacheKept

C38_TokenCache ==
  [][ zoom.loaded =>
        /\ \A p \in ZoomCallers : zoom'.calls[p] /= zoom.calls[p] => C38_Step(p)
        /\ (zoom'.cachedToken /= zoom.cachedToken \/ zoom'.tokenExpiry /= zoom.tokenExpiry)
             => \E p \in ZoomCallers : /\ zoom.calls[p].pc = "json"
                                       /\ zoom'.calls[p].ret.kind = "exchange" ]_vars

\* one caller was answered from the cache; the other found the same kind of
\* token unexpired but inside the last 5 minutes and exchanged it for a new one
C38_Witness ==
  /\ zoom.loaded
  /\ \E p, q \in ZoomCallers :
       /\ zoom.calls[p].ret.kind = "cache"
       /\ zoom.calls[q].ret.kind = "exchange"
       /\ zoom.calls[q].stale /= NoToken
       /\ zoom.calls[q].ret.token /= << zoom.calls[q].stale[1].access_token >>
       /\ zoom.cachedToken[1].access_token = zoom.calls[q].ret.token[1]
       /\ zoom.calls[p].ret.token = << zoom.calls[q].stale[1].access_token >>


=============================================================================
